---- MODULE Spec2Model ----
(***************************************************************************)
(* Model of docfinder's Markdown generator (internal/generator): the       *)
(* recursive schema renderer FormatSchema, the formatters FormatType and   *)
(* FormatConstraints, the sorted-key helpers, and GenerateMarkdown with    *)
(* its per-section writers.                                                *)
(*                                                                         *)
(* Text is a sequence of lines: every write of the Go code ends in "\n",   *)
(* so a strings.Builder holding "a\n\nb\n" is <<"a", "", "b">> here and    *)
(* two texts are byte-identical exactly when the sequences are equal.      *)
(*                                                                         *)
(* A function of the generator is modelled by the steps of one activation  *)
(* of it, in program order: the lines it writes and the calls of           *)
(* FormatSchema it makes.  The state machine at the end runs activations   *)
(* on a call stack and appends the lines to the text in execution order,   *)
(* which is the text the nested strings.Builder values of the code add up  *)
(* to.                                                                     *)
(*                                                                         *)
(* Map keys that the code sorts are Go strings, modelled as tuples of      *)
(* one-character strings (<<"i","d">> is "id") so that the byte-wise       *)
(* order of sort.Strings can be computed; Str turns a key into its text.   *)
(*                                                                         *)
(* Pointers are heap addresses: Nil == 0 is the nil pointer, and a schema  *)
(* pointer p > 0 denotes Heap[p].  A *SchemaRef is a record with a nil     *)
(* flag and a Value pointer.  Optional numbers (pointers to uint64 or       *)
(* float64) are <<>> when nil and <<v>> when set.                           *)
(***************************************************************************)
EXTENDS Integers, Sequences, FiniteSets, TLC

(***************************************************************************)
(* Bounds of the model.                                                    *)
(***************************************************************************)
\* map-iteration seeds 0..MaxSeed: enough to produce every order of a map
\* of up to three keys
MaxSeed == 5
\* starting depth budgets 0..MaxStartDepth are explored besides the default
MaxStartDepth == 3
\* starting indents 0..MaxIndent
MaxIndent == 1
\* the call stack holds at most MaxStack activations
MaxStack == 24

\* longest type list handed to FormatType
MaxTypes == 3

\* longest endpoint path handed to normalizeEndpointPath
MaxPathLen == 3

(***************************************************************************)
(* Program constants (constants.go).                                       *)
(***************************************************************************)
MaxRecursionDepth == 20

HeaderParameters == <<"### Parameters", "">>
HeaderRequestBody == <<"### Request Body", "">>
HeaderResponses == <<"### Responses", "">>
HeaderSecurity == <<"### Security", "">>
HeaderExamples == <<"", "**Examples:**", "">>
HeaderHeaders == <<"**Headers:**", "">>
HeaderSchema == <<"**Schema:**", "">>
SeparatorOperation == <<"---", "">>
MarkerRequired == " **(required)**"
\* the source has the glyph U+26A0 U+FE0F here; it is written out in ASCII.
\* Everywhere in the texts below, ' stands for the backtick of the source.
MarkerDeprecated == " [U+26A0 U+FE0F] *deprecated*"

Nil == 0

(***************************************************************************)
(* Go strings as byte sequences.                                           *)
(***************************************************************************)
\* the printable ASCII characters in code order, starting at byte 32; a TLA+
\* string cannot hold the backtick (byte 96), which has a placeholder here
AsciiPrintable ==
  << " ", "!", "\"", "#", "$", "%", "&", "'", "(", ")", "*", "+", ",", "-", ".", "/",
     "0", "1", "2", "3", "4", "5", "6", "7", "8", "9", ":", ";", "<", "=", ">", "?",
     "@", "A", "B", "C", "D", "E", "F", "G", "H", "I", "J", "K", "L", "M", "N", "O",
     "P", "Q", "R", "S", "T", "U", "V", "W", "X", "Y", "Z", "[", "\\", "]", "^", "_",
     "<backtick>", "a", "b", "c", "d", "e", "f", "g", "h", "i", "j", "k", "l", "m", "n", "o",
     "p", "q", "r", "s", "t", "u", "v", "w", "x", "y", "z", "{", "|", "}", "~" >>

Ord(c) == 31 + (CHOOSE i \in 1..Len(AsciiPrintable) : AsciiPrintable[i] = c)

Bytes(k) == [i \in 1..Len(k) |-> Ord(k[i])]

RECURSIVE Str(_)
Str(k) == IF k = <<>> THEN "" ELSE Head(k) \o Str(Tail(k))

RECURSIVE BytesLess(_, _)
BytesLess(a, b) ==
  IF b = <<>> THEN FALSE
  ELSE IF a = <<>> THEN TRUE
  ELSE IF Head(a) # Head(b) THEN Head(a) < Head(b)
  ELSE BytesLess(Tail(a), Tail(b))

\* Go's < on strings: byte-wise lexicographic
StringLess(a, b) == BytesLess(Bytes(a), Bytes(b))

RECURSIVE Repeat(_, _)
Repeat(s, count) == IF count <= 0 THEN "" ELSE s \o Repeat(s, count - 1)

RECURSIVE Join(_, _)
Join(elems, sep) ==
  IF elems = <<>> THEN ""
  ELSE IF Len(elems) = 1 THEN elems[1]
  ELSE elems[1] \o sep \o Join(Tail(elems), sep)

RECURSIVE Flatten(_)
Flatten(seqs) == IF seqs = <<>> THEN <<>> ELSE Head(seqs) \o Flatten(Tail(seqs))

\* fmt's %v of a value; the interface{} values of the model are Go strings,
\* which %v prints as they are
FormatV(v) == v

\* fmt's %v of a []interface{}: the elements between brackets, space-separated
FormatVSlice(vs) == "[" \o Join([i \in 1..Len(vs) |-> FormatV(vs[i])], " ") \o "]"

(***************************************************************************)
(* Map iteration.  'for k := range m' visits the keys of a Go map in an    *)
(* order the runtime picks afresh each time.  iter stands for that pick:   *)
(* MapRange(m, iter) is the order for seed iter, and over the seeds        *)
(* 0..MaxSeed every order of a map of up to three keys occurs.  Each       *)
(* operator that ranges over a map takes the seed of its activation.       *)
(***************************************************************************)
RECURSIVE SetToSeq(_)
SetToSeq(S) ==
  IF S = {} THEN <<>>
  ELSE LET x == CHOOSE y \in S : TRUE IN <<x>> \o SetToSeq(S \ {x})

RemoveAt(s, i) == SubSeq(s, 1, i - 1) \o SubSeq(s, i + 1, Len(s))

RECURSIVE NthPermutation(_, _)
NthPermutation(s, n) ==
  IF s = <<>> THEN <<>>
  ELSE LET i == (n % Len(s)) + 1
       IN <<s[i]>> \o NthPermutation(RemoveAt(s, i), n \div Len(s))

MapRange(m, iter) == NthPermutation(SetToSeq(DOMAIN m), iter)

(***************************************************************************)
(* sort.Strings and the sorted-key helpers (formatter.go).                 *)
(***************************************************************************)
RECURSIVE Insert(_, _)
Insert(sorted, k) ==
  IF sorted = <<>> THEN <<k>>
  ELSE IF StringLess(k, Head(sorted)) THEN <<k>> \o sorted
  ELSE <<Head(sorted)>> \o Insert(Tail(sorted), k)

\* faulty variant of SortStrings: sort.Strings left out, the keys stay in
\* iteration order
SortStringsUnsorted(names) == names

RECURSIVE SortStrings(_)
SortStrings(names) ==
  IF names = <<>> THEN <<>>
  ELSE Insert(SortStrings(SubSeq(names, 1, Len(names) - 1)), names[Len(names)])

\* faulty variant of getSortedPropertyNames: the names are in descending
\* order
getSortedPropertyNamesDescending(properties, iter) ==
  LET sorted == SortStrings(MapRange(properties, iter))
  IN [i \in 1..Len(sorted) |-> sorted[Len(sorted) + 1 - i]]

getSortedPropertyNames(properties, iter) == SortStrings(MapRange(properties, iter))

getSortedHeaderNames(headers, iter) == SortStrings(MapRange(headers, iter))

getSortedExampleNames(examples, iter) == SortStrings(MapRange(examples, iter))

getSortedContentTypes(content, iter) == SortStrings(MapRange(content, iter))

getSortedStatusCodes(responses, iter) == SortStrings(MapRange(responses, iter))

\* faulty variant of buildRequiredMap: only the first name is recorded
buildRequiredMapFirstOnly(required) ==
  IF required = <<>> THEN {} ELSE {required[1]}

buildRequiredMap(required) == {required[i] : i \in 1..Len(required)}

(***************************************************************************)
(* The schema graph.  openapi3.Schema values live on a heap; a             *)
(* *openapi3.SchemaRef is NilRef, a reference without a value, or a        *)
(* reference to a heap address.                                            *)
(***************************************************************************)
NilRef == [nil |-> TRUE, Value |-> Nil]

NoValueRef == [nil |-> FALSE, Value |-> Nil]

Ref(p) == [nil |-> FALSE, Value |-> p]

\* the zero value of openapi3.Schema, restricted to the fields the generator reads
EmptySchema ==
  [ Type |-> <<>>, Nullable |-> FALSE, Format |-> "", Description |-> "",
    Deprecated |-> FALSE, Default |-> <<>>, Example |-> <<>>, Enum |-> <<>>,
    OneOf |-> <<>>, AnyOf |-> <<>>, AllOf |-> <<>>,
    Properties |-> <<>>, Required |-> <<>>, Items |-> NilRef,
    MinLength |-> 0, MaxLength |-> <<>>, Pattern |-> "",
    Min |-> <<>>, ExclusiveMin |-> FALSE, Max |-> <<>>, ExclusiveMax |-> FALSE,
    MultipleOf |-> <<>>,
    MinItems |-> 0, MaxItems |-> <<>>, UniqueItems |-> FALSE,
    MinProps |-> 0, MaxProps |-> <<>> ]

\* *openapi3.Types: <<>> is the nil pointer, <<names>> points to the slice names
Types(names) == <<names>>

\* length of the chain of nested objects at the bottom of the heap
ChainLen == 25

Digits(n) == <<ToString(n \div 10), ToString(n % 10)>>

\* the name of the property that holds level n of the chain
ChainKey(n) == <<"n">> \o Digits(n)

StringLeaf == ChainLen + 1

IntegerLeaf == ChainLen + 2

SelfObject == ChainLen + 3

SelfArray == ChainLen + 4

SelfOneOf == ChainLen + 5

ListHolder == ChainLen + 6

ListOfHolders == ChainLen + 7

Person == ChainLen + 8

NullableName == ChainLen + 9

SelfAllOf == ChainLen + 10

SelfAnyOf == ChainLen + 11

Item == ChainLen + 12

NilMember == ChainLen + 13

CompositionBase == ChainLen + 13

\* level n of the chain: an object whose one property holds level n + 1
ChainNode(n) ==
  [EmptySchema EXCEPT
     !.Type = Types(<<"object">>),
     !.Properties = (ChainKey(n + 1) :>
                       Ref(IF n < ChainLen THEN n + 1 ELSE StringLeaf))]

OtherNodes ==
  << \* StringLeaf
     [EmptySchema EXCEPT !.Type = Types(<<"string">>)],
     \* IntegerLeaf
     [EmptySchema EXCEPT !.Type = Types(<<"integer">>), !.Format = "int64"],
     \* SelfObject: reaches itself through a property
     [EmptySchema EXCEPT !.Type = Types(<<"object">>),
        !.Properties = (<<"s","e","l","f">> :> Ref(SelfObject))],
     \* SelfArray: reaches itself through its items
     [EmptySchema EXCEPT !.Type = Types(<<"array">>), !.Items = Ref(SelfArray)],
     \* SelfOneOf: reaches itself through a composition member
     [EmptySchema EXCEPT !.OneOf = <<Ref(StringLeaf), Ref(SelfOneOf)>>],
     \* ListHolder: an object whose array property has ListHolder items
     [EmptySchema EXCEPT !.Type = Types(<<"object">>),
        !.Properties = (<<"l","i","s","t">> :> Ref(ListOfHolders))],
     \* ListOfHolders
     [EmptySchema EXCEPT !.Type = Types(<<"array">>), !.Items = Ref(ListHolder),
        !.MinItems = 1],
     \* Person: several properties, one without a value
     [EmptySchema EXCEPT !.Type = Types(<<"object">>),
        !.Properties = (<<"Z">> :> Ref(IntegerLeaf)) @@
                       (<<"a">> :> Ref(StringLeaf)) @@
                       (<<"a","b">> :> Ref(NullableName)),
        !.Required = << <<"a">> >>],
     \* NullableName
     [EmptySchema EXCEPT !.Type = Types(<<"string", "null">>),
        !.Nullable = TRUE, !.Description = "display name",
        !.MaxLength = <<0>>, !.Enum = <<"x", "y">>],
     \* SelfAllOf
     [EmptySchema EXCEPT !.AllOf = <<NoValueRef, Ref(SelfAllOf)>>],
     \* SelfAnyOf
     [EmptySchema EXCEPT !.AnyOf = <<Ref(SelfAnyOf)>>],
     \* Item: required id, optional name
     [EmptySchema EXCEPT !.Type = Types(<<"object">>),
        !.Properties = (<<"i","d">> :> Ref(StringLeaf)) @@
                       (<<"n","a","m","e">> :> Ref(StringLeaf)),
        !.Required = << <<"i","d">> >>],
     \* NilMember: a composition list holding a nil reference
     [EmptySchema EXCEPT !.OneOf = <<Ref(StringLeaf), NilRef>>] >>

\* every combination of populated composition lists, on an object schema
\* that also has a property: bit 1 is oneOf, bit 2 anyOf, bit 4 allOf
CompositionNode(bits) ==
  [EmptySchema EXCEPT
     !.Type = Types(<<"object">>),
     !.Properties = (<<"a">> :> Ref(StringLeaf)),
     !.OneOf = IF bits % 2 = 1 THEN <<Ref(StringLeaf), Ref(IntegerLeaf)>> ELSE <<>>,
     !.AnyOf = IF (bits \div 2) % 2 = 1 THEN <<Ref(IntegerLeaf), Ref(Person)>> ELSE <<>>,
     !.AllOf = IF (bits \div 4) % 2 = 1 THEN <<Ref(Person), Ref(StringLeaf)>> ELSE <<>>]

ExtraBase == CompositionBase + 7

OneOfOnly == ExtraBase + 1

UnionHolder == ExtraBase + 2

ListOfUnions == ExtraBase + 3

Account == ExtraBase + 4

EnumNoType == ExtraBase + 5

EnumString == ExtraBase + 6

ObjectOrNull == ExtraBase + 7

ExtraNodes ==
  << \* OneOfOnly: a composition list and no declared type
     [EmptySchema EXCEPT !.OneOf = <<Ref(StringLeaf), Ref(IntegerLeaf)>>],
     \* UnionHolder: an object whose properties carry composition lists, one
     \* without a type and one typed object with properties of its own
     [EmptySchema EXCEPT !.Type = Types(<<"object">>),
        !.Properties = (<<"c">> :> Ref(OneOfOnly)) @@
                       (<<"d">> :> Ref(CompositionBase + 1))],
     \* ListOfUnions: an array whose items carry a composition list
     [EmptySchema EXCEPT !.Type = Types(<<"array">>), !.Items = Ref(OneOfOnly)],
     \* Account: the required list names two properties and a name that is
     \* no property; 'Id' differs from the required 'id' by case only
     [EmptySchema EXCEPT !.Type = Types(<<"object">>),
        !.Properties = (<<"I","d">> :> Ref(StringLeaf)) @@
                       (<<"i","d">> :> Ref(IntegerLeaf)) @@
                       (<<"n","a","m","e">> :> Ref(StringLeaf)) @@
                       (<<"n","o","t","e">> :> Ref(StringLeaf)),
        !.Required = << <<"n","a","m","e">>, <<"g","h","o","s","t">>, <<"i","d">> >>],
     \* EnumNoType: enumerated values and no declared type
     [EmptySchema EXCEPT !.Enum = <<"x", "y">>],
     \* EnumString
     [EmptySchema EXCEPT !.Type = Types(<<"string">>), !.Enum = <<"on", "off">>],
     \* ObjectOrNull: the type list holds object and null
     [EmptySchema EXCEPT !.Type = Types(<<"object", "null">>),
        !.Properties = (<<"a">> :> Ref(StringLeaf))] >>

\* the schemas FormatSchema is started on are 1..HeapSize
HeapSize == ExtraBase + 7

Heap ==
  [p \in 1..HeapSize |->
     IF p <= ChainLen THEN ChainNode(p)
     ELSE IF p <= CompositionBase THEN OtherNodes[p - ChainLen]
     ELSE IF p <= ExtraBase THEN CompositionNode(p - CompositionBase)
     ELSE ExtraNodes[p - ExtraBase]]

\* the *openapi3.Schema held at a heap address, as FormatType and
\* FormatConstraints take it: <<>> for nil, <<s>> for a pointer to s
At(p) == IF p = Nil THEN <<>> ELSE <<Heap[p]>>

\* the schemas handed to FormatConstraints alone: one for every subset of
\* the eleven constraints (bits 0 to 10, in the order the function tests
\* them), with the pointer fields holding 0 (bit 11) or a positive number,
\* and with the exclusive flags set (bit 12) or not
ConstraintCount == 2 ^ 13

Bit(n, k) == (n \div (2 ^ k)) % 2 = 1

ConstraintNode(n) ==
  LET Pointer(k, v) == IF Bit(n, k) THEN <<IF Bit(n, 11) THEN 0 ELSE v>> ELSE <<>>
  IN [EmptySchema EXCEPT
        !.Type = Types(<<"string">>),
        !.MinLength = IF Bit(n, 0) THEN 2 ELSE 0,
        !.MaxLength = Pointer(1, 5),
        !.Pattern = IF Bit(n, 2) THEN "^a" ELSE "",
        !.Min = Pointer(3, 1),
        !.Max = Pointer(4, 9),
        !.MultipleOf = Pointer(5, 3),
        !.MinItems = IF Bit(n, 6) THEN 1 ELSE 0,
        !.MaxItems = Pointer(7, 4),
        !.UniqueItems = Bit(n, 8),
        !.MinProps = IF Bit(n, 9) THEN 1 ELSE 0,
        !.MaxProps = Pointer(10, 6),
        !.ExclusiveMin = Bit(n, 12),
        !.ExclusiveMax = Bit(n, 12)]

\* the schemas handed to FormatType alone: one without a type list and one
\* for every list of up to MaxTypes type names
TypeNames == {"string", "null", "object", "integer"}

TypeLists == UNION {[1..k -> TypeNames] : k \in 0..MaxTypes}

TypeNodes == {EmptySchema} \cup {[EmptySchema EXCEPT !.Type = Types(types)] : types \in TypeLists}

(***************************************************************************)
(* openapi3.Types accessors (kin-openapi), as the generator uses them.     *)
(***************************************************************************)
\* Types.Is: the pointer is set and the slice is exactly <<typ>>
TypeIs(type, typ) == type # <<>> /\ Len(type[1]) = 1 /\ type[1][1] = typ

\* Types.Slice: nil for the nil pointer
TypeSlice(type) == IF type = <<>> THEN <<>> ELSE type[1]

(***************************************************************************)
(* FormatType and FormatConstraints (formatter.go).                        *)
(***************************************************************************)
\* faulty variant of FormatType: the list is reordered so that null comes last
FormatTypeNullLast(schema) ==
  IF schema = <<>> THEN "unknown"
  ELSE LET declared == TypeSlice(schema[1].Type)
           types == SelectSeq(declared, LAMBDA t : t # "null") \o
                    SelectSeq(declared, LAMBDA t : t = "null")
       IN IF Len(types) = 0 THEN "unknown"
          ELSE IF Len(types) = 1 THEN types[1]
          ELSE Join(types, " | ")

FormatType(schema) ==
  IF schema = <<>> THEN "unknown"
  ELSE LET types == TypeSlice(schema[1].Type)
       IN IF Len(types) = 0 THEN "unknown"
          ELSE IF Len(types) = 1 THEN types[1]
          ELSE Join(types, " | ")

\* faulty variant of FormatConstraints: an upper bound of 0 counts as unset
FormatConstraintsPositiveOnly(schema) ==
  IF schema = <<>> THEN ""
  ELSE LET s == schema[1]
           Exclusive(flag) == IF flag THEN " (exclusive)" ELSE ""
           constraints ==
             (IF s.MinLength > 0 THEN <<"minLength: " \o ToString(s.MinLength)>> ELSE <<>>) \o
             (IF s.MaxLength # <<>> /\ s.MaxLength[1] > 0 THEN <<"maxLength: " \o ToString(s.MaxLength[1])>> ELSE <<>>) \o
             (IF s.Pattern # "" THEN <<"pattern: '" \o s.Pattern \o "'">> ELSE <<>>) \o
             (IF s.Min # <<>>
                THEN <<"min: " \o ToString(s.Min[1]) \o Exclusive(s.ExclusiveMin)>> ELSE <<>>) \o
             (IF s.Max # <<>>
                THEN <<"max: " \o ToString(s.Max[1]) \o Exclusive(s.ExclusiveMax)>> ELSE <<>>) \o
             (IF s.MultipleOf # <<>> THEN <<"multipleOf: " \o ToString(s.MultipleOf[1])>> ELSE <<>>) \o
             (IF s.MinItems > 0 THEN <<"minItems: " \o ToString(s.MinItems)>> ELSE <<>>) \o
             (IF s.MaxItems # <<>> /\ s.MaxItems[1] > 0 THEN <<"maxItems: " \o ToString(s.MaxItems[1])>> ELSE <<>>) \o
             (IF s.UniqueItems THEN <<"uniqueItems: true">> ELSE <<>>) \o
             (IF s.MinProps > 0 THEN <<"minProperties: " \o ToString(s.MinProps)>> ELSE <<>>) \o
             (IF s.MaxProps # <<>> /\ s.MaxProps[1] > 0 THEN <<"maxProperties: " \o ToString(s.MaxProps[1])>> ELSE <<>>)
       IN IF Len(constraints) = 0 THEN "" ELSE Join(constraints, ", ")

\* faulty variant of FormatConstraints: maxLength is listed after
\* minProperties
FormatConstraintsMaxLengthLate(schema) ==
  IF schema = <<>> THEN ""
  ELSE LET s == schema[1]
           Exclusive(flag) == IF flag THEN " (exclusive)" ELSE ""
           constraints ==
             (IF s.MinLength > 0 THEN <<"minLength: " \o ToString(s.MinLength)>> ELSE <<>>) \o
             (IF s.Pattern # "" THEN <<"pattern: '" \o s.Pattern \o "'">> ELSE <<>>) \o
             (IF s.Min # <<>>
                THEN <<"min: " \o ToString(s.Min[1]) \o Exclusive(s.ExclusiveMin)>> ELSE <<>>) \o
             (IF s.Max # <<>>
                THEN <<"max: " \o ToString(s.Max[1]) \o Exclusive(s.ExclusiveMax)>> ELSE <<>>) \o
             (IF s.MultipleOf # <<>> THEN <<"multipleOf: " \o ToString(s.MultipleOf[1])>> ELSE <<>>) \o
             (IF s.MinItems > 0 THEN <<"minItems: " \o ToString(s.MinItems)>> ELSE <<>>) \o
             (IF s.MaxItems # <<>> THEN <<"maxItems: " \o ToString(s.MaxItems[1])>> ELSE <<>>) \o
             (IF s.UniqueItems THEN <<"uniqueItems: true">> ELSE <<>>) \o
             (IF s.MinProps > 0 THEN <<"minProperties: " \o ToString(s.MinProps)>> ELSE <<>>) \o
             (IF s.MaxLength # <<>> THEN <<"maxLength: " \o ToString(s.MaxLength[1])>> ELSE <<>>) \o
             (IF s.MaxProps # <<>> THEN <<"maxProperties: " \o ToString(s.MaxProps[1])>> ELSE <<>>)
       IN IF Len(constraints) = 0 THEN "" ELSE Join(constraints, ", ")

FormatConstraints(schema) ==
  IF schema = <<>> THEN ""
  ELSE LET s == schema[1]
           Exclusive(flag) == IF flag THEN " (exclusive)" ELSE ""
           constraints ==
             (IF s.MinLength > 0 THEN <<"minLength: " \o ToString(s.MinLength)>> ELSE <<>>) \o
             (IF s.MaxLength # <<>> THEN <<"maxLength: " \o ToString(s.MaxLength[1])>> ELSE <<>>) \o
             (IF s.Pattern # "" THEN <<"pattern: '" \o s.Pattern \o "'">> ELSE <<>>) \o
             (IF s.Min # <<>>
                THEN <<"min: " \o ToString(s.Min[1]) \o Exclusive(s.ExclusiveMin)>> ELSE <<>>) \o
             (IF s.Max # <<>>
                THEN <<"max: " \o ToString(s.Max[1]) \o Exclusive(s.ExclusiveMax)>> ELSE <<>>) \o
             (IF s.MultipleOf # <<>> THEN <<"multipleOf: " \o ToString(s.MultipleOf[1])>> ELSE <<>>) \o
             (IF s.MinItems > 0 THEN <<"minItems: " \o ToString(s.MinItems)>> ELSE <<>>) \o
             (IF s.MaxItems # <<>> THEN <<"maxItems: " \o ToString(s.MaxItems[1])>> ELSE <<>>) \o
             (IF s.UniqueItems THEN <<"uniqueItems: true">> ELSE <<>>) \o
             (IF s.MinProps > 0 THEN <<"minProperties: " \o ToString(s.MinProps)>> ELSE <<>>) \o
             (IF s.MaxProps # <<>> THEN <<"maxProperties: " \o ToString(s.MaxProps[1])>> ELSE <<>>)
       IN IF Len(constraints) = 0 THEN "" ELSE Join(constraints, ", ")

(***************************************************************************)
(* Steps of an activation.                                                 *)
(***************************************************************************)
Write(line) == [op |-> "write", line |-> line]

Writes(lines) == [i \in 1..Len(lines) |-> Write(lines[i])]

\* a call FormatSchema(schema, indent, maxDepth) whose result the caller
\* writes at this point
Call(schema, indent, maxDepth) ==
  [op |-> "call", schema |-> schema, indent |-> indent, maxDepth |-> maxDepth]

\* a nil pointer dereference: the Go runtime panics here
Panic == [op |-> "panic"]

(***************************************************************************)
(* FormatSchema (schema.go).  Each helper gives the steps that append to   *)
(* the caller's strings.Builder.                                           *)
(***************************************************************************)
\* faulty variant of formatSchemaComposition: the members are rendered with
\* the depth budget left as it is
formatSchemaCompositionSameDepth(keyword, description, schemas, prefix, indent, maxDepth) ==
  Writes(<<prefix \o "- **" \o keyword \o "** (" \o description \o "):">>) \o
  Flatten([i \in 1..Len(schemas) |->
    Writes(<<prefix \o "  - Option " \o ToString(i) \o ":">>) \o
    (IF schemas[i].nil THEN <<Panic>>
     ELSE IF schemas[i].Value # Nil
       THEN <<Call(schemas[i].Value, indent + 2, maxDepth)>>
       ELSE <<>>)])

formatSchemaComposition(keyword, description, schemas, prefix, indent, maxDepth) ==
  Writes(<<prefix \o "- **" \o keyword \o "** (" \o description \o "):">>) \o
  Flatten([i \in 1..Len(schemas) |->
    Writes(<<prefix \o "  - Option " \o ToString(i) \o ":">>) \o
    (IF schemas[i].nil THEN <<Panic>>
     ELSE IF schemas[i].Value # Nil
       THEN <<Call(schemas[i].Value, indent + 2, maxDepth - 1)>>
       ELSE <<>>)])

formatObjectSchema(schema, prefix, indent, maxDepth, iter) ==
  LET s == Heap[schema]
      requiredMap == buildRequiredMap(s.Required)
      propNames == getSortedPropertyNames(s.Properties, iter)
      PropertySteps(propName) ==
        LET propRef == s.Properties[propName]
        IN IF propRef.nil \/ propRef.Value = Nil THEN <<>>
           ELSE
             LET prop == Heap[propRef.Value]
                 required == IF propName \in requiredMap THEN MarkerRequired ELSE ""
                 deprecated == IF prop.Deprecated THEN MarkerDeprecated ELSE ""
                 constraints == FormatConstraints(At(propRef.Value))
             IN Writes(
                  <<prefix \o "  - **" \o Str(propName) \o "**" \o required \o deprecated \o
                      (IF prop.Description # "" THEN ": " \o prop.Description ELSE "")>> \o
                  <<prefix \o "    - Type: '" \o FormatType(At(propRef.Value)) \o "'">> \o
                  (IF prop.Format # ""
                     THEN <<prefix \o "    - Format: '" \o prop.Format \o "'">> ELSE <<>>) \o
                  (IF prop.Default # <<>>
                     THEN <<prefix \o "    - Default: '" \o FormatV(prop.Default[1]) \o "'">>
                     ELSE <<>>) \o
                  (IF prop.Example # <<>>
                     THEN <<prefix \o "    - Example: '" \o FormatV(prop.Example[1]) \o "'">>
                     ELSE <<>>) \o
                  (IF prop.Nullable THEN <<prefix \o "    - Nullable: 'true'">> ELSE <<>>) \o
                  (IF constraints # ""
                     THEN <<prefix \o "    - Constraints: " \o constraints>> ELSE <<>>) \o
                  (IF Len(prop.Enum) > 0
                     THEN <<prefix \o "    - Allowed values: " \o FormatVSlice(prop.Enum)>>
                     ELSE <<>>)) \o
                (IF TypeIs(prop.Type, "object") /\ Cardinality(DOMAIN prop.Properties) > 0
                   THEN <<Call(propRef.Value, indent + 2, maxDepth - 1)>> ELSE <<>>) \o
                (IF TypeIs(prop.Type, "array") /\ ~prop.Items.nil /\ prop.Items.Value # Nil
                   THEN Writes(<<prefix \o "    - Items:">>) \o
                        <<Call(prop.Items.Value, indent + 3, maxDepth - 1)>>
                   ELSE <<>>)
  IN Writes(<<prefix \o "- Type: 'object'">> \o
            (IF s.Nullable THEN <<prefix \o "- Nullable: 'true'">> ELSE <<>>)) \o
     (IF Cardinality(DOMAIN s.Properties) = 0 THEN <<>>
      ELSE Writes(<<prefix \o "- Properties:">>) \o
           Flatten([i \in 1..Len(propNames) |-> PropertySteps(propNames[i])]))

\* faulty variant of formatArraySchema: the items are rendered with the
\* depth budget left as it is
formatArraySchemaSameDepth(schema, prefix, indent, maxDepth) ==
  LET s == Heap[schema]
      constraints == FormatConstraints(At(schema))
  IN Writes(<<prefix \o "- Type: 'array'">> \o
            (IF s.Nullable THEN <<prefix \o "- Nullable: 'true'">> ELSE <<>>) \o
            (IF constraints # "" THEN <<prefix \o "- Constraints: " \o constraints>> ELSE <<>>)) \o
     (IF ~s.Items.nil /\ s.Items.Value # Nil
        THEN Writes(<<prefix \o "- Items:">>) \o
             <<Call(s.Items.Value, indent + 1, maxDepth)>>
        ELSE <<>>)

formatArraySchema(schema, prefix, indent, maxDepth) ==
  LET s == Heap[schema]
      constraints == FormatConstraints(At(schema))
  IN Writes(<<prefix \o "- Type: 'array'">> \o
            (IF s.Nullable THEN <<prefix \o "- Nullable: 'true'">> ELSE <<>>) \o
            (IF constraints # "" THEN <<prefix \o "- Constraints: " \o constraints>> ELSE <<>>)) \o
     (IF ~s.Items.nil /\ s.Items.Value # Nil
        THEN Writes(<<prefix \o "- Items:">>) \o
             <<Call(s.Items.Value, indent + 1, maxDepth - 1)>>
        ELSE <<>>)

formatPrimitiveSchema(schema, prefix) ==
  LET s == Heap[schema]
      constraints == FormatConstraints(At(schema))
  IN Writes(
       <<prefix \o "- Type: '" \o FormatType(At(schema)) \o "'">> \o
       (IF s.Format # "" THEN <<prefix \o "- Format: '" \o s.Format \o "'">> ELSE <<>>) \o
       (IF s.Nullable THEN <<prefix \o "- Nullable: 'true'">> ELSE <<>>) \o
       (IF s.Default # <<>>
          THEN <<prefix \o "- Default: '" \o FormatV(s.Default[1]) \o "'">> ELSE <<>>) \o
       (IF s.Example # <<>>
          THEN <<prefix \o "- Example: '" \o FormatV(s.Example[1]) \o "'">> ELSE <<>>) \o
       (IF constraints # "" THEN <<prefix \o "- Constraints: " \o constraints>> ELSE <<>>) \o
       (IF Len(s.Enum) > 0
          THEN <<prefix \o "- Allowed values: " \o FormatVSlice(s.Enum)>> ELSE <<>>))

MaxDepthLine(prefix) == prefix \o "- *(max depth reached)*"

\* faulty variant of FormatSchemaBranches: the composition lists are tested
\* in the order allOf, anyOf, oneOf
FormatSchemaBranchesAllOfFirst(schema, indent, maxDepth, iter) ==
  LET s == Heap[schema]
      prefix == Repeat("  ", indent)
  IN IF Len(s.AllOf) > 0
       THEN formatSchemaComposition("allOf", "all of the following", s.AllOf,
                                    prefix, indent, maxDepth)
     ELSE IF Len(s.AnyOf) > 0
       THEN formatSchemaComposition("anyOf", "any of the following", s.AnyOf,
                                    prefix, indent, maxDepth)
     ELSE IF Len(s.OneOf) > 0
       THEN formatSchemaComposition("oneOf", "one of the following", s.OneOf,
                                    prefix, indent, maxDepth)
     ELSE IF TypeIs(s.Type, "object")
       THEN formatObjectSchema(schema, prefix, indent, maxDepth, iter)
     ELSE IF TypeIs(s.Type, "array")
       THEN formatArraySchema(schema, prefix, indent, maxDepth)
     ELSE IF s.Type # <<>>
       THEN formatPrimitiveSchema(schema, prefix)
     ELSE <<>>

\* schema.go 24-61: the branch of FormatSchema that renders the schema
FormatSchemaBranches(schema, indent, maxDepth, iter) ==
  LET s == Heap[schema]
      prefix == Repeat("  ", indent)
  IN IF Len(s.OneOf) > 0
       THEN formatSchemaComposition("oneOf", "one of the following", s.OneOf,
                                    prefix, indent, maxDepth)
     ELSE IF Len(s.AnyOf) > 0
       THEN formatSchemaComposition("anyOf", "any of the following", s.AnyOf,
                                    prefix, indent, maxDepth)
     ELSE IF Len(s.AllOf) > 0
       THEN formatSchemaComposition("allOf", "all of the following", s.AllOf,
                                    prefix, indent, maxDepth)
     ELSE IF TypeIs(s.Type, "object")
       THEN formatObjectSchema(schema, prefix, indent, maxDepth, iter)
     ELSE IF TypeIs(s.Type, "array")
       THEN formatArraySchema(schema, prefix, indent, maxDepth)
     ELSE IF s.Type # <<>>
       THEN formatPrimitiveSchema(schema, prefix)
     ELSE <<>>

\* faulty variant of FormatSchema: the budget is exhausted one level late
FormatSchemaOffByOne(schema, indent, maxDepth, iter) ==
  IF schema = Nil THEN <<>>
  ELSE IF maxDepth < 0 THEN Writes(<<MaxDepthLine(Repeat("  ", indent))>>)
  ELSE FormatSchemaBranches(schema, indent, maxDepth, iter)

\* faulty variant of FormatSchema: the bullet of the exhausted budget is
\* written at the left margin
FormatSchemaBulletAtMargin(schema, indent, maxDepth, iter) ==
  IF schema = Nil THEN <<>>
  ELSE IF maxDepth <= 0 THEN Writes(<<MaxDepthLine("")>>)
  ELSE FormatSchemaBranches(schema, indent, maxDepth, iter)

\* the steps of one activation of FormatSchema
FormatSchema(schema, indent, maxDepth, iter) ==
  IF schema = Nil THEN <<>>
  ELSE IF maxDepth <= 0 THEN Writes(<<MaxDepthLine(Repeat("  ", indent))>>)
  ELSE FormatSchemaBranches(schema, indent, maxDepth, iter)

(***************************************************************************)
(* FormatJSON (formatter.go).  An example value is nil (<<>>) or <<v>>     *)
(* with v a Go string or a channel, which encoding/json cannot marshal.    *)
(***************************************************************************)
\* json.MarshalIndent(value, "", "  "): the lines of the JSON text
MarshalIndent(v) ==
  IF v.kind = "string" THEN [err |-> FALSE, lines |-> <<"\"" \o v.s \o "\"">>]
  ELSE [err |-> TRUE, lines |-> <<>>]

\* fmt's %v of an example value
FormatExampleV(value) == IF value = <<>> THEN "<nil>" ELSE value[1].s

FormatJSON(value) ==
  IF value = <<>> THEN [err |-> FALSE, lines |-> <<"{}">>]
  ELSE MarshalIndent(value[1])

(***************************************************************************)
(* GenerateMarkdown and its writers (generator.go).  A pointer to a        *)
(* struct is <<>> when nil and <<v>> otherwise; a map is a function on     *)
(* its keys.                                                               *)
(***************************************************************************)
\* PathItem.Operations (kin-openapi): the non-nil operations by method name;
\* the model keeps five of the method fields
Operations(pathItem) ==
  LET fields == (("DELETE" :> pathItem.Delete) @@ ("GET" :> pathItem.Get) @@
                 ("PATCH" :> pathItem.Patch) @@
                 ("POST" :> pathItem.Post) @@ ("PUT" :> pathItem.Put))
  IN [method \in {m \in DOMAIN fields : fields[m] # <<>>} |-> fields[method][1]]

\* strings.ToUpper on method names
ToUpper(s) ==
  CASE s = "get" -> "GET"
    [] s = "put" -> "PUT"
    [] s = "post" -> "POST"
    [] s = "delete" -> "DELETE"
    [] OTHER -> s

writeHeader(doc, path) ==
  Writes(
    <<"# API Endpoint: " \o path, "">> \o
    (IF doc.Info # <<>>
       THEN <<"**API:** " \o doc.Info[1].Title \o " " \o doc.Info[1].Version, "">>
       ELSE <<>>) \o
    (IF Len(doc.Servers) > 0
       THEN <<"**Base URL(s):**">> \o
            [i \in 1..Len(doc.Servers) |->
               IF doc.Servers[i].Description # ""
                 THEN "- '" \o doc.Servers[i].URL \o "' - " \o doc.Servers[i].Description
                 ELSE "- '" \o doc.Servers[i].URL \o "'"] \o
            <<"">>
       ELSE <<>>))

writeOperationMetadata(operation) ==
  Writes(
    (IF operation.Deprecated
       THEN <<"[U+26A0 U+FE0F] **DEPRECATED** - This operation is deprecated and may be removed in a future version.", "">>
       ELSE <<>>) \o
    (IF operation.Summary # "" THEN <<"**Summary:** " \o operation.Summary, "">> ELSE <<>>) \o
    (IF operation.Description # ""
       THEN <<"**Description:** " \o operation.Description, "">> ELSE <<>>) \o
    (IF operation.OperationID # ""
       THEN <<"**Operation ID:** '" \o operation.OperationID \o "'", "">> ELSE <<>>) \o
    (IF Len(operation.Tags) > 0
       THEN <<"**Tags:** " \o Join(operation.Tags, ", "), "">> ELSE <<>>))

writeParameters(parameters) ==
  IF Len(parameters) = 0 THEN <<>>
  ELSE
    LET ParameterLines(paramRef) ==
          IF paramRef = <<>> \/ paramRef[1].Value = <<>> THEN <<>>
          ELSE
            LET param == paramRef[1].Value[1]
                required == IF param.Required THEN MarkerRequired ELSE ""
                deprecated == IF param.Deprecated THEN MarkerDeprecated ELSE ""
                schema == param.Schema.Value
                constraints == FormatConstraints(At(schema))
            IN <<"- **" \o param.Name \o "** (" \o param.In \o ")" \o required \o deprecated>> \o
               (IF param.Description # ""
                  THEN <<"  - Description: " \o param.Description>> ELSE <<>>) \o
               (IF ~param.Schema.nil /\ schema # Nil
                  THEN <<"  - Type: '" \o FormatType(At(schema)) \o "'">> \o
                       (IF Heap[schema].Format # ""
                          THEN <<"  - Format: '" \o Heap[schema].Format \o "'">> ELSE <<>>) \o
                       (IF Heap[schema].Default # <<>>
                          THEN <<"  - Default: '" \o FormatV(Heap[schema].Default[1]) \o "'">>
                          ELSE <<>>) \o
                       (IF Heap[schema].Example # <<>>
                          THEN <<"  - Example: '" \o FormatV(Heap[schema].Example[1]) \o "'">>
                          ELSE <<>>) \o
                       (IF constraints # ""
                          THEN <<"  - Constraints: " \o constraints>> ELSE <<>>) \o
                       (IF Len(Heap[schema].Enum) > 0
                          THEN <<"  - Allowed values: " \o FormatVSlice(Heap[schema].Enum)>>
                          ELSE <<>>)
                  ELSE <<>>)
    IN Writes(HeaderParameters \o
              Flatten([i \in 1..Len(parameters) |-> ParameterLines(parameters[i])]) \o
              <<"">>)

\* faulty variant of writeExamples: the loop ends at the first example that
\* cannot be serialized
writeExamplesStopAtError(examples, iter) ==
  IF Cardinality(DOMAIN examples) = 0 THEN <<>>
  ELSE
    LET exampleNames == getSortedExampleNames(examples, iter)
        Fails(exampleName) ==
          LET exampleRef == examples[exampleName]
          IN exampleRef # <<>> /\ exampleRef[1].Value # <<>> /\
             FormatJSON(exampleRef[1].Value[1].Value).err
        kept == IF \E i \in 1..Len(exampleNames) : Fails(exampleNames[i])
                  THEN SubSeq(exampleNames, 1,
                              (CHOOSE i \in 1..Len(exampleNames) :
                                 /\ Fails(exampleNames[i])
                                 /\ \A j \in 1..(i - 1) : ~Fails(exampleNames[j])) - 1)
                  ELSE exampleNames
        ExampleLines(exampleName) ==
          LET exampleRef == examples[exampleName]
          IN IF exampleRef = <<>> \/ exampleRef[1].Value = <<>> THEN <<>>
             ELSE
               LET example == exampleRef[1].Value[1]
                   json == FormatJSON(example.Value)
               IN (IF example.Summary # ""
                     THEN <<"*" \o example.Summary \o "* ('" \o Str(exampleName) \o "'):", "">>
                     ELSE <<"*Example: '" \o Str(exampleName) \o "'*:", "">>) \o
                  <<"'''json">> \o json.lines \o <<"'''", "">>
    IN Writes(HeaderExamples \o
              Flatten([i \in 1..Len(kept) |-> ExampleLines(kept[i])]))

writeExamples(examples, iter) ==
  IF Cardinality(DOMAIN examples) = 0 THEN <<>>
  ELSE
    LET exampleNames == getSortedExampleNames(examples, iter)
        ExampleLines(exampleName) ==
          LET exampleRef == examples[exampleName]
          IN IF exampleRef = <<>> \/ exampleRef[1].Value = <<>> THEN <<>>
             ELSE
               LET example == exampleRef[1].Value[1]
                   json == FormatJSON(example.Value)
               IN (IF example.Summary # ""
                     THEN <<"*" \o example.Summary \o "* ('" \o Str(exampleName) \o "'):", "">>
                     ELSE <<"*Example: '" \o Str(exampleName) \o "'*:", "">>) \o
                  (IF json.err
                     THEN <<"'''", FormatExampleV(example.Value), "'''", "">>
                     ELSE <<"'''json">> \o json.lines \o <<"'''", "">>)
    IN Writes(HeaderExamples \o
              Flatten([i \in 1..Len(exampleNames) |-> ExampleLines(exampleNames[i])]))

\* faulty variant of writeMediaType: the schema is rendered from a budget of
\* one less than MaxRecursionDepth
writeMediaTypeShortBudget(content, contentType, iter) ==
  LET mediaType == content[contentType]
  IN IF mediaType = <<>> THEN <<>>
     ELSE Writes(<<"**Content-Type:** '" \o Str(contentType) \o "'", "">>) \o
          (IF ~mediaType[1].Schema.nil /\ mediaType[1].Schema.Value # Nil
             THEN Writes(HeaderSchema) \o
                  <<Call(mediaType[1].Schema.Value, 0, MaxRecursionDepth - 1)>>
             ELSE <<>>) \o
          writeExamples(mediaType[1].Examples, iter)

\* generator.go 193-207 and 241-255: one media type of a content map
writeMediaType(content, contentType, iter) ==
  LET mediaType == content[contentType]
  IN IF mediaType = <<>> THEN <<>>
     ELSE Writes(<<"**Content-Type:** '" \o Str(contentType) \o "'", "">>) \o
          (IF ~mediaType[1].Schema.nil /\ mediaType[1].Schema.Value # Nil
             THEN Writes(HeaderSchema) \o
                  <<Call(mediaType[1].Schema.Value, 0, MaxRecursionDepth)>>
             ELSE <<>>) \o
          writeExamples(mediaType[1].Examples, iter)

writeRequestBody(requestBodyRef, iter) ==
  IF requestBodyRef = <<>> \/ requestBodyRef[1].Value = <<>> THEN <<>>
  ELSE
    LET reqBody == requestBodyRef[1].Value[1]
        contentTypes == getSortedContentTypes(reqBody.Content, iter)
    IN Writes(HeaderRequestBody \o
              (IF reqBody.Description # "" THEN <<reqBody.Description, "">> ELSE <<>>) \o
              (IF reqBody.Required
                 THEN <<"**Required:** (required)", "">>
                 ELSE <<"**Required:** (optional)", "">>)) \o
       Flatten([i \in 1..Len(contentTypes) |->
                  writeMediaType(reqBody.Content, contentTypes[i], iter)]) \o
       Writes(<<"">>)

writeResponseHeaders(headers, iter) ==
  IF Cardinality(DOMAIN headers) = 0 THEN <<>>
  ELSE
    LET headerNames == getSortedHeaderNames(headers, iter)
        HeaderLines(headerName) ==
          LET headerRef == headers[headerName]
          IN IF headerRef = <<>> \/ headerRef[1].Value = <<>> THEN <<>>
             ELSE
               LET header == headerRef[1].Value[1]
                   desc == IF header.Description # ""
                             THEN " - " \o header.Description ELSE ""
               IN <<"- '" \o Str(headerName) \o "'" \o desc>> \o
                  (IF ~header.Schema.nil /\ header.Schema.Value # Nil
                     THEN <<"  - Type: '" \o FormatType(At(header.Schema.Value)) \o "'">>
                     ELSE <<>>)
    IN Writes(HeaderHeaders \o
              Flatten([i \in 1..Len(headerNames) |-> HeaderLines(headerNames[i])]) \o
              <<"">>)

writeResponses(responses, iter) ==
  IF responses = <<>> \/ Cardinality(DOMAIN responses[1]) = 0 THEN <<>>
  ELSE
    LET statusCodes == getSortedStatusCodes(responses[1], iter)
        ResponseSteps(status) ==
          LET respRef == responses[1][status]
          IN IF respRef = <<>> \/ respRef[1].Value = <<>> THEN <<>>
             ELSE
               LET resp == respRef[1].Value[1]
                   contentTypes == getSortedContentTypes(resp.Content, iter)
               IN Writes(<<"#### " \o Str(status), "">> \o
                         (IF resp.Description # <<>>
                            THEN <<resp.Description[1], "">> ELSE <<>>)) \o
                  writeResponseHeaders(resp.Headers, iter) \o
                  Flatten([i \in 1..Len(contentTypes) |->
                             writeMediaType(resp.Content, contentTypes[i], iter)]) \o
                  Writes(<<"">>)
    IN Writes(HeaderResponses) \o
       Flatten([i \in 1..Len(statusCodes) |-> ResponseSteps(statusCodes[i])])

writeSecurity(security, iter) ==
  IF security = <<>> \/ Len(security[1]) = 0 THEN <<>>
  ELSE
    LET RequirementLines(secReq) ==
          LET names == MapRange(secReq, iter)
          IN [i \in 1..Len(names) |->
                IF Len(secReq[names[i]]) > 0
                  THEN "- **" \o Str(names[i]) \o "**: " \o Join(secReq[names[i]], ", ")
                  ELSE "- **" \o Str(names[i]) \o "**"]
    IN Writes(HeaderSecurity \o
              Flatten([i \in 1..Len(security[1]) |-> RequirementLines(security[1][i])]) \o
              <<"">>)

OperationHeading(method, path) == "## " \o ToUpper(method) \o " " \o path

\* faulty variant of writeOperation: the security section is written before
\* the parameters
writeOperationSecurityFirst(method, path, operation, iter) ==
  Writes(<<OperationHeading(method, path), "">>) \o
  writeOperationMetadata(operation) \o
  writeSecurity(operation.Security, iter) \o
  writeParameters(operation.Parameters) \o
  writeRequestBody(operation.RequestBody, iter) \o
  writeResponses(operation.Responses, iter) \o
  Writes(SeparatorOperation)

writeOperation(method, path, operation, iter) ==
  Writes(<<OperationHeading(method, path), "">>) \o
  writeOperationMetadata(operation) \o
  writeParameters(operation.Parameters) \o
  writeRequestBody(operation.RequestBody, iter) \o
  writeResponses(operation.Responses, iter) \o
  writeSecurity(operation.Security, iter) \o
  Writes(SeparatorOperation)

\* Operations() holds no nil operation, so the loop's nil test never applies
\* faulty variant of writeOperations: the filter is compared ignoring case
writeOperationsFoldCase(path, pathItem, methodFilter, iter, iterOp) ==
  LET operations == Operations(pathItem)
      methods == MapRange(operations, iter)
  IN Flatten([i \in 1..Len(methods) |->
       IF methodFilter # "" /\ ToUpper(methods[i]) # ToUpper(methodFilter) THEN <<>>
       ELSE writeOperation(methods[i], path, operations[methods[i]], iterOp)])

\* faulty variant of writeOperations: the loop ends after the first operation
\* it renders
writeOperationsFirstOnly(path, pathItem, methodFilter, iter, iterOp) ==
  LET operations == Operations(pathItem)
      methods == MapRange(operations, iter)
      kept == SelectSeq(methods, LAMBDA m : methodFilter = "" \/ m = methodFilter)
  IN IF kept = <<>> THEN <<>>
     ELSE writeOperation(kept[1], path, operations[kept[1]], iterOp)

\* faulty variant of writeOperations: a separator is written after the loop
\* as well
writeOperationsTrailingSeparator(path, pathItem, methodFilter, iter, iterOp) ==
  LET operations == Operations(pathItem)
      methods == MapRange(operations, iter)
  IN Flatten([i \in 1..Len(methods) |->
       IF methodFilter # "" /\ methods[i] # methodFilter THEN <<>>
       ELSE writeOperation(methods[i], path, operations[methods[i]], iterOp)]) \o
     Writes(SeparatorOperation)

\* iter orders the range over the operations, iterOp the ranges inside each
\* operation
writeOperations(path, pathItem, methodFilter, iter, iterOp) ==
  LET operations == Operations(pathItem)
      methods == MapRange(operations, iter)
  IN Flatten([i \in 1..Len(methods) |->
       IF methodFilter # "" /\ methods[i] # methodFilter THEN <<>>
       ELSE writeOperation(methods[i], path, operations[methods[i]], iterOp)])

\* faulty variant of GenerateMarkdown: the header is written before the
\* path item is tested
GenerateMarkdownHeaderFirst(doc, path, pathItem, method, iter, iterOp) ==
  writeHeader(doc, path) \o
  (IF pathItem = <<>> THEN <<>>
   ELSE writeOperations(path, pathItem[1], method, iter, iterOp))

\* the steps of one activation of GenerateMarkdown
GenerateMarkdown(doc, path, pathItem, method, iter, iterOp) ==
  IF pathItem = <<>> THEN <<>>
  ELSE writeHeader(doc, path) \o
       writeOperations(path, pathItem[1], method, iter, iterOp)

(***************************************************************************)
(* The command line (package main).  A Go error is <<>> when nil and       *)
(* <<message>> otherwise.  An endpoint path given on the command line is   *)
(* a tuple of one-character strings, so that its first character can be    *)
(* looked at.                                                              *)
(***************************************************************************)
\* strings.TrimSpace on the method arguments of the model
TrimSpace(s) ==
  CASE s = " put " -> "put"
    [] s = " " -> ""
    [] OTHER -> s

maxFileSize == 100 * 1024 * 1024

\* a file is what os.Stat reports about it and what the loader makes of it
validateInputFile(file) ==
  IF file.stat = "not exist" THEN <<"file does not exist: " \o file.path>>
  ELSE IF file.stat = "error" THEN <<"failed to stat file: " \o file.path>>
  ELSE IF file.isDir THEN <<"path is a directory, not a file: " \o file.path>>
  ELSE IF file.size > maxFileSize
    THEN <<"file too large: " \o ToString(file.size) \o " bytes (max " \o
           ToString(maxFileSize) \o ")">>
  ELSE IF file.ext \notin {".yaml", ".yml", ".json"}
    THEN <<"unsupported file extension: " \o file.ext \o " (expected .yaml, .yml, or .json)">>
  ELSE <<>>

\* loader.LoadFromFile gives a document, an error, or neither
loadOpenAPISpec(file) ==
  IF file.load = "error"
    THEN [doc |-> <<>>, err |-> <<"failed to load OpenAPI file: " \o file.path>>]
  ELSE IF file.load = "nil"
    THEN [doc |-> <<>>, err |-> <<"loaded document is nil">>]
  ELSE [doc |-> <<file.doc>>, err |-> <<>>]

\* faulty variant of normalizeEndpointPath: the slash is prepended always
normalizeEndpointPathAlways(path) == <<"/">> \o path

normalizeEndpointPath(path) ==
  IF ~(Len(path) >= 1 /\ path[1] = "/") THEN <<"/">> \o path
  ELSE path

\* Paths.Find (kin-openapi) by the key itself
findPathItem(doc, endpointPath) ==
  IF doc.Paths = <<>>
    THEN [pathItem |-> <<>>, err |-> <<"OpenAPI document has no paths defined">>]
  ELSE IF endpointPath \notin DOMAIN doc.Paths[1] \/ doc.Paths[1][endpointPath] = <<>>
    THEN [pathItem |-> <<>>, err |-> <<"endpoint not found: " \o endpointPath>>]
  ELSE [pathItem |-> doc.Paths[1][endpointPath], err |-> <<>>]

\* faulty variant of validateMethod: only a path item without any operation
\* is rejected
validateMethodAnyOperation(pathItem, method, iter) ==
  LET operations == Operations(pathItem[1])
  IN IF DOMAIN operations = {}
       THEN <<"method '" \o method \o "' not found for this endpoint. Available methods: ">>
       ELSE <<>>

\* iter orders the range over the operations
validateMethod(pathItem, method, iter) ==
  LET operations == Operations(pathItem[1])
  IN IF method \notin DOMAIN operations
       THEN <<"method '" \o method \o "' not found for this endpoint. Available methods: " \o
              Join(MapRange(operations, iter), ", ")>>
       ELSE <<>>

(***************************************************************************)
(* The documents handed in by the loader.                                  *)
(***************************************************************************)
ApplicationJSON == <<"a","p","p","l","i","c","a","t","i","o","n","/","j","s","o","n">>

TextPlain == <<"t","e","x","t","/","p","l","a","i","n">>

Status200 == <<"2","0","0">>

Status404 == <<"4","0","4">>

ApiKey == <<"a","p","i","K","e","y">>

OAuth == <<"o","a","u","t","h">>

XRateLimit == <<"X","-","R","a","t","e","-","L","i","m","i","t">>

StringValue(s) == <<[kind |-> "string", s |-> s]>>

\* a channel, printed by %v as its address
ChanValue == <<[kind |-> "chan", s |-> "0xc000012345"]>>

\* the zero value of openapi3.Operation
EmptyOperation ==
  [ Deprecated |-> FALSE, Summary |-> "", Description |-> "", OperationID |-> "",
    Tags |-> <<>>, Parameters |-> <<>>, RequestBody |-> <<>>, Responses |-> <<>>,
    Security |-> <<>> ]

GetItem ==
  [EmptyOperation EXCEPT
     !.Summary = "Get item", !.Description = "Retrieves an item by ID",
     !.OperationID = "getItem", !.Tags = <<"Items", "Read">>,
     !.Parameters =
       << <<[Value |-> <<[Name |-> "id", In |-> "path", Required |-> TRUE,
                          Deprecated |-> FALSE, Description |-> "Item ID",
                          Schema |-> Ref(IntegerLeaf)]>>]>>,
          <<>>,
          <<[Value |-> <<[Name |-> "verbose", In |-> "query", Required |-> FALSE,
                          Deprecated |-> TRUE, Description |-> "",
                          Schema |-> NilRef]>>]>> >>,
     !.Responses =
       << (Status404 :> <<[Value |-> <<[Description |-> <<"Not found">>,
                                        Headers |-> <<>>, Content |-> <<>>]>>]>>) @@
          (Status200 :> <<[Value |-> <<[Description |-> <<"OK">>,
             Headers |-> (XRateLimit :> <<[Value |-> <<[Description |-> "Requests left",
                                                        Schema |-> Ref(IntegerLeaf)]>>]>>),
             Content |-> (ApplicationJSON :>
               <<[Schema |-> Ref(Item),
                  Examples |-> (<<"o","n","e">> :>
                                  <<[Value |-> <<[Summary |-> "An item",
                                                  Value |-> StringValue("item-1")]>>]>>) @@
                               (<<"b","a","d">> :>
                                  <<[Value |-> <<[Summary |-> "",
                                                  Value |-> ChanValue]>>]>>) @@
                               (<<"n","i","l">> :>
                                  <<[Value |-> <<[Summary |-> "",
                                                  Value |-> <<>>]>>]>>)]>>)]>>]>>) >>,
     !.Security = << << (ApiKey :> <<>>) @@ (OAuth :> <<"read", "write">>) >> >>]

PutItem ==
  [EmptyOperation EXCEPT
     !.Deprecated = TRUE, !.Summary = "Update item", !.OperationID = "updateItem",
     !.RequestBody =
       <<[Value |-> <<[Description |-> "The item", Required |-> TRUE,
          Content |-> (TextPlain :> <<>>) @@
                      (ApplicationJSON :>
                         <<[Schema |-> Ref(Person), Examples |-> <<>>]>>)]>>]>>]

DeleteItem ==
  [EmptyOperation EXCEPT
     !.Summary = "Delete item",
     !.Security = << << (OAuth :> <<"write">>) >> >>]

\* an operation whose schemas are 20 and 21 levels deep, and cyclic; it has
\* every section an operation can have
PostDeep ==
  [EmptyOperation EXCEPT
     !.Summary = "Create",
     !.Parameters =
       << <<[Value |-> <<[Name |-> "dry", In |-> "query", Required |-> FALSE,
                          Deprecated |-> FALSE, Description |-> "",
                          Schema |-> Ref(StringLeaf)]>>]>> >>,
     !.Security = << << (ApiKey :> <<>>) >> >>,
     !.RequestBody =
       <<[Value |-> <<[Description |-> "", Required |-> FALSE,
          Content |-> (TextPlain :> <<[Schema |-> Ref(ChainLen - 20), Examples |-> <<>>]>>) @@
                      (ApplicationJSON :>
                         <<[Schema |-> Ref(ChainLen - 19), Examples |-> <<>>]>>)]>>]>>,
     !.Responses =
       << (Status200 :> <<[Value |-> <<[Description |-> <<>>, Headers |-> <<>>,
             Content |-> (ApplicationJSON :>
                            <<[Schema |-> Ref(SelfObject), Examples |-> <<>>]>>)]>>]>>) >>]

\* an operation whose request schema holds a nil reference among its
\* composition members
PatchUnion ==
  [EmptyOperation EXCEPT
     !.Summary = "Patch",
     !.RequestBody =
       <<[Value |-> <<[Description |-> "", Required |-> TRUE,
          Content |-> (ApplicationJSON :>
                         <<[Schema |-> Ref(NilMember), Examples |-> <<>>]>>)]>>]>>]

\* the documents: without and with metadata and servers
Docs ==
  << [Info |-> <<>>, Servers |-> <<>>],
     [Info |-> <<[Title |-> "Test API", Version |-> "1.0.0"]>>,
      Servers |-> << [URL |-> "https://api.example.com", Description |-> "Test Server"],
                     [URL |-> "http://localhost:8080", Description |-> ""] >>] >>

Paths == {"/items/{id}", "/"}

OperationOf(method) ==
  CASE method = "GET" -> GetItem
    [] method = "PUT" -> PutItem
    [] method = "DELETE" -> DeleteItem
    [] method = "POST" -> PostDeep
    [] method = "PATCH" -> PatchUnion

\* a path item is chosen by the methods it defines: nil, every combination
\* of GET, PUT and DELETE, the deep POST alone, and the PATCH alone
PathItemChoices ==
  {[nil |-> TRUE, methods |-> {}]} \cup
  {[nil |-> FALSE, methods |-> ms] : ms \in SUBSET {"GET", "PUT", "DELETE"}} \cup
  {[nil |-> FALSE, methods |-> {"POST"}]} \cup
  {[nil |-> FALSE, methods |-> {"PATCH"}]}

\* the *openapi3.PathItem of a choice
PathItemOf(choice) ==
  IF choice.nil THEN <<>>
  ELSE LET Field(method) ==
             IF method \in choice.methods THEN <<OperationOf(method)>> ELSE <<>>
       IN <<[Get |-> Field("GET"), Put |-> Field("PUT"), Delete |-> Field("DELETE"),
             Post |-> Field("POST"), Patch |-> Field("PATCH")]>>

MethodFilters == {"", "GET", "PUT", "DELETE", "POST", "PATCH", "get"}

\* the keys of the maps handed to the sorted-key helpers
SortKeys == { <<"Z">>, <<"a">>, <<"a","b">>, <<"1","0">>, <<"9">> }

SortedHelpers ==
  { "getSortedPropertyNames", "getSortedHeaderNames", "getSortedExampleNames",
    "getSortedContentTypes", "getSortedStatusCodes" }

\* the arguments of the command line: files, endpoint paths and methods
ItemsPath == <<"/","i","t","e","m","s","/","{","i","d","}">>

\* the document of the command line: /items/{id} with GET, PUT and DELETE,
\* and / without operations
CliDoc ==
  [Info |-> Docs[2].Info, Servers |-> Docs[2].Servers,
   Paths |-> <<(Str(ItemsPath) :> PathItemOf([nil |-> FALSE, methods |-> {"GET", "PUT", "DELETE"}])) @@
               ("/" :> PathItemOf([nil |-> FALSE, methods |-> {}])) @@
               ("/p" :> PathItemOf([nil |-> FALSE, methods |-> {"PATCH"}]))>>]

CliFile ==
  [path |-> "api.yaml", stat |-> "ok", isDir |-> FALSE, size |-> 10, ext |-> ".yaml",
   load |-> "ok", doc |-> CliDoc]

CliFiles ==
  { CliFile,
    [CliFile EXCEPT !.path = "none.yaml", !.stat = "not exist"],
    [CliFile EXCEPT !.path = "locked.yaml", !.stat = "error"],
    [CliFile EXCEPT !.path = "dir.yaml", !.isDir = TRUE],
    [CliFile EXCEPT !.path = "big.yaml", !.size = maxFileSize + 1],
    [CliFile EXCEPT !.path = "api.txt", !.ext = ".txt"],
    [CliFile EXCEPT !.path = "broken.json", !.ext = ".json", !.load = "error"],
    [CliFile EXCEPT !.path = "empty.yml", !.ext = ".yml", !.load = "nil"],
    [CliFile EXCEPT !.path = "nopaths.yaml", !.doc = [CliDoc EXCEPT !.Paths = <<>>]] }

EndpointArgs == {ItemsPath, Tail(ItemsPath), <<"/", "x">>, <<"p">>, <<>>}

MethodArgs == {"", "GET", "get", " put ", "POST", " "}

\* the endpoint paths handed to normalizeEndpointPath alone
PathChars == {"/", "a", "{"}

PathArgs == UNION {[1..n -> PathChars] : n \in 0..MaxPathLen}

\* the path items handed to validateMethod alone
DefinedPathItemChoices == {choice \in PathItemChoices : ~choice.nil}

Seeds == 0..MaxSeed

StartDepths == (0..MaxStartDepth) \cup {MaxRecursionDepth}

(***************************************************************************)
(* The state machine.  A behaviour runs one entry point on one input:      *)
(* GenerateMarkdown (twice, to compare two runs), FormatSchema, one of     *)
(* the sorted-key helpers, FormatConstraints or FormatType.                *)
(***************************************************************************)
VARIABLES
  input,    \* the entry point and its arguments
  stack,    \* the activations in progress, innermost last
  md,       \* the text written so far by the current run
  prev,     \* the text the previous run returned
  runs,     \* number of runs that have returned
  names,    \* the result of the sorted-key helper
  returned, \* the string FormatConstraints or FormatType returned
  crashed,  \* the run panicked
  cli       \* the command line: where run is, what it holds and what it printed

vars == <<input, stack, md, prev, runs, names, returned, crashed, cli>>

Frame(fn, schema, indent, maxDepth, items) ==
  [fn |-> fn, schema |-> schema, indent |-> indent, maxDepth |-> maxDepth,
   items |-> items]

Top == stack[Len(stack)]

Done == stack = <<>> /\ runs >= 1

Init ==
  /\ \/ \E doc \in DOMAIN Docs, path \in Paths, pathItem \in PathItemChoices,
             method \in MethodFilters :
          input = [kind |-> "GenerateMarkdown", doc |-> doc, path |-> path,
                   pathItem |-> pathItem, method |-> method]
     \/ \E schema \in 0..HeapSize, indent \in 0..MaxIndent, maxDepth \in StartDepths :
          input = [kind |-> "FormatSchema", schema |-> schema, indent |-> indent,
                   maxDepth |-> maxDepth]
     \/ \E fn \in SortedHelpers, keys \in SUBSET SortKeys :
          /\ Cardinality(keys) <= 3
          /\ input = [kind |-> "getSorted", fn |-> fn, keys |-> keys]
     \/ \E schema \in {<<>>} \cup {<<ConstraintNode(n)>> : n \in 0..(ConstraintCount - 1)} :
          input = [kind |-> "FormatConstraints", schema |-> schema]
     \/ \E schema \in {<<>>} \cup {<<s>> : s \in TypeNodes} :
          input = [kind |-> "FormatType", schema |-> schema]
     \/ \E pathItem \in DefinedPathItemChoices, method \in MethodFilters \ {""} :
          input = [kind |-> "validateMethod", pathItem |-> pathItem, method |-> method]
     \/ \E doc \in DOMAIN Docs, path \in Paths, pathItem \in DefinedPathItemChoices,
             method \in MethodFilters \ {""} :
          input = [kind |-> "Projection", doc |-> doc, path |-> path,
                   pathItem |-> pathItem, method |-> method]
     \/ \E path \in PathArgs :
          input = [kind |-> "normalizeEndpointPath", path |-> path]
     \/ \E file \in CliFiles, endpointPath \in EndpointArgs, method \in MethodArgs :
          input = [kind |-> "run", file |-> file, endpointPath |-> endpointPath,
                   method |-> method]
  /\ cli = [pc |-> IF input.kind = "run" THEN "validateInputFile" ELSE "idle",
            steps |-> <<>>, doc |-> <<>>, endpointPath |-> "", pathItem |-> <<>>,
            method |-> "", err |-> <<>>, stdout |-> <<>>, stderr |-> <<>>, exit |-> 0]
  /\ stack = <<>>
  /\ md = <<>>
  /\ prev = <<>>
  /\ runs = 0
  /\ names = <<>>
  /\ returned = ""
  /\ crashed = FALSE

\* a caller invokes GenerateMarkdown; a second run starts once the first returned
EnterGenerateMarkdown ==
  /\ input.kind = "GenerateMarkdown" /\ stack = <<>> /\ ~crashed /\ runs < 2
  /\ \E iter \in Seeds, iterOp \in Seeds :
       stack' = <<Frame("GenerateMarkdown", Nil, 0, 0,
                        GenerateMarkdown(Docs[input.doc], input.path,
                                         PathItemOf(input.pathItem), input.method,
                                         iter, iterOp))>>
  /\ prev' = md
  /\ md' = <<>>
  /\ UNCHANGED <<input, runs, names, returned, crashed, cli>>

\* a caller invokes GenerateMarkdown without a filter and then, on the same
\* document, path and path item, with one
EnterProjection ==
  /\ input.kind = "Projection" /\ stack = <<>> /\ ~crashed /\ runs < 2
  /\ \E iter \in Seeds, iterOp \in Seeds :
       stack' = <<Frame("GenerateMarkdown", Nil, 0, 0,
                        GenerateMarkdown(Docs[input.doc], input.path,
                                         PathItemOf(input.pathItem),
                                         IF runs = 0 THEN "" ELSE input.method,
                                         iter, iterOp))>>
  /\ prev' = md
  /\ md' = <<>>
  /\ UNCHANGED <<input, runs, names, returned, crashed, cli>>

\* a caller invokes FormatSchema
EnterFormatSchema ==
  /\ input.kind = "FormatSchema" /\ stack = <<>> /\ ~crashed /\ runs = 0
  /\ \E iter \in Seeds :
       stack' = <<Frame("FormatSchema", input.schema, input.indent, input.maxDepth,
                        FormatSchema(input.schema, input.indent, input.maxDepth, iter))>>
  /\ UNCHANGED <<input, md, prev, runs, names, returned, crashed, cli>>

NumLeadingWrites(items) ==
  CHOOSE n \in 0..Len(items) :
    /\ \A i \in 1..n : items[i].op = "write"
    /\ n = Len(items) \/ items[n + 1].op # "write"

\* the innermost activation writes its lines up to its next call
WriteLines ==
  /\ stack # <<>> /\ Top.items # <<>> /\ Top.items[1].op = "write"
  /\ LET n == NumLeadingWrites(Top.items)
     IN /\ md' = md \o [i \in 1..n |-> Top.items[i].line]
        /\ stack' = [stack EXCEPT ![Len(stack)].items = SubSeq(Top.items, n + 1, Len(Top.items))]
  /\ UNCHANGED <<input, prev, runs, names, returned, crashed, cli>>

\* the innermost activation calls FormatSchema
CallFormatSchema ==
  /\ stack # <<>> /\ Top.items # <<>> /\ Top.items[1].op = "call"
  /\ Len(stack) < MaxStack
  /\ LET c == Top.items[1]
     IN \E iter \in Seeds :
          stack' = [stack EXCEPT ![Len(stack)].items = Tail(Top.items)] \o
                   <<Frame("FormatSchema", c.schema, c.indent, c.maxDepth,
                           FormatSchema(c.schema, c.indent, c.maxDepth, iter))>>
  /\ UNCHANGED <<input, md, prev, runs, names, returned, crashed, cli>>

\* the innermost activation returns; its text is already in place
Return ==
  /\ stack # <<>> /\ Top.items = <<>>
  /\ stack' = SubSeq(stack, 1, Len(stack) - 1)
  /\ runs' = IF Len(stack) = 1 THEN runs + 1 ELSE runs
  /\ UNCHANGED <<input, md, prev, names, returned, crashed, cli>>

\* the innermost activation dereferences a nil pointer: the run ends
\* without a result
Crash ==
  /\ stack # <<>> /\ Top.items # <<>> /\ Top.items[1].op = "panic"
  /\ crashed' = TRUE
  /\ stack' = <<>>
  /\ md' = <<>>
  /\ UNCHANGED <<input, prev, runs, names, returned, cli>>

ApplySortedHelper(fn, m, iter) ==
  CASE fn = "getSortedPropertyNames" -> getSortedPropertyNames(m, iter)
    [] fn = "getSortedHeaderNames" -> getSortedHeaderNames(m, iter)
    [] fn = "getSortedExampleNames" -> getSortedExampleNames(m, iter)
    [] fn = "getSortedContentTypes" -> getSortedContentTypes(m, iter)
    [] fn = "getSortedStatusCodes" -> getSortedStatusCodes(m, iter)

\* a caller invokes one of the sorted-key helpers
CallSortedHelper ==
  /\ input.kind = "getSorted" /\ runs = 0
  /\ \E iter \in Seeds :
       names' = ApplySortedHelper(input.fn, [k \in input.keys |-> <<>>], iter)
  /\ runs' = 1
  /\ UNCHANGED <<input, stack, md, prev, returned, crashed, cli>>

\* a caller invokes FormatConstraints
CallFormatConstraints ==
  /\ input.kind = "FormatConstraints" /\ runs = 0
  /\ returned' = FormatConstraints(input.schema)
  /\ runs' = 1
  /\ UNCHANGED <<input, stack, md, prev, names, crashed, cli>>

\* a caller invokes FormatType
CallFormatType ==
  /\ input.kind = "FormatType" /\ runs = 0
  /\ returned' = FormatType(input.schema)
  /\ runs' = 1
  /\ UNCHANGED <<input, stack, md, prev, names, crashed, cli>>

\* a caller invokes validateMethod
CallValidateMethod ==
  /\ input.kind = "validateMethod" /\ runs = 0
  /\ \E iter \in Seeds :
       returned' = validateMethod(PathItemOf(input.pathItem), input.method, iter)
  /\ runs' = 1
  /\ UNCHANGED <<input, stack, md, prev, names, crashed, cli>>

\* a caller invokes normalizeEndpointPath, and then once more on the result
CallNormalizeEndpointPath ==
  /\ input.kind = "normalizeEndpointPath" /\ runs < 2
  /\ returned' = normalizeEndpointPath(IF runs = 0 THEN input.path ELSE returned)
  /\ prev' = IF runs = 0 THEN <<>> ELSE returned
  /\ runs' = runs + 1
  /\ UNCHANGED <<input, stack, md, names, crashed, cli>>

\* run returns the error of one of its steps
ReturnError(step, err) ==
  /\ cli' = [cli EXCEPT !.pc = "returned", !.err = err, !.steps = Append(@, step)]
  /\ runs' = 1

\* run, line 343: the input file is validated
RunValidateInputFile ==
  /\ input.kind = "run" /\ cli.pc = "validateInputFile"
  /\ LET err == validateInputFile(input.file)
     IN IF err # <<>> THEN ReturnError("validateInputFile", err)
        ELSE /\ cli' = [cli EXCEPT !.pc = "loadOpenAPISpec",
                                   !.steps = Append(@, "validateInputFile")]
             /\ runs' = runs
  /\ UNCHANGED <<input, stack, md, prev, names, returned, crashed>>

\* run, line 348: the document is loaded
RunLoadOpenAPISpec ==
  /\ input.kind = "run" /\ cli.pc = "loadOpenAPISpec"
  /\ LET loaded == loadOpenAPISpec(input.file)
     IN IF loaded.err # <<>> THEN ReturnError("loadOpenAPISpec", loaded.err)
        ELSE /\ cli' = [cli EXCEPT !.pc = "findPathItem", !.doc = loaded.doc,
                                   !.steps = Append(@, "loadOpenAPISpec")]
             /\ runs' = runs
  /\ UNCHANGED <<input, stack, md, prev, names, returned, crashed>>

\* run, lines 354 to 360: the path is normalized and looked up
RunFindPathItem ==
  /\ input.kind = "run" /\ cli.pc = "findPathItem"
  /\ LET endpointPath == Str(normalizeEndpointPath(input.endpointPath))
         found == findPathItem(cli.doc[1], endpointPath)
     IN IF found.err # <<>>
          THEN /\ cli' = [cli EXCEPT !.pc = "returned", !.err = found.err,
                                     !.endpointPath = endpointPath,
                                     !.steps = Append(@, "findPathItem")]
               /\ runs' = 1
          ELSE /\ cli' = [cli EXCEPT !.pc = "validateMethod", !.endpointPath = endpointPath,
                                     !.pathItem = found.pathItem,
                                     !.steps = Append(@, "findPathItem")]
               /\ runs' = runs
  /\ UNCHANGED <<input, stack, md, prev, names, returned, crashed>>

\* faulty variant of RunValidateMethod: the error of validateMethod is
\* dropped
RunValidateMethodErrorDropped ==
  /\ input.kind = "run" /\ cli.pc = "validateMethod"
  /\ LET method == ToUpper(TrimSpace(input.method))
     IN cli' = [cli EXCEPT !.pc = "GenerateMarkdown", !.method = method,
                           !.steps = IF method # "" THEN Append(@, "validateMethod") ELSE @]
  /\ UNCHANGED <<input, stack, md, prev, runs, names, returned, crashed>>

\* run, lines 363 to 370: the method is normalized and, when one is given,
\* validated
RunValidateMethod ==
  /\ input.kind = "run" /\ cli.pc = "validateMethod"
  /\ LET method == ToUpper(TrimSpace(input.method))
     IN IF method # ""
          THEN \E iter \in Seeds :
                 LET err == validateMethod(cli.pathItem, method, iter)
                 IN IF err # <<>>
                      THEN /\ cli' = [cli EXCEPT !.pc = "returned", !.err = err,
                                                 !.method = method,
                                                 !.steps = Append(@, "validateMethod")]
                           /\ runs' = 1
                      ELSE /\ cli' = [cli EXCEPT !.pc = "GenerateMarkdown",
                                                 !.method = method,
                                                 !.steps = Append(@, "validateMethod")]
                           /\ runs' = runs
          ELSE /\ cli' = [cli EXCEPT !.pc = "GenerateMarkdown", !.method = method]
               /\ runs' = runs
  /\ UNCHANGED <<input, stack, md, prev, names, returned, crashed>>

\* run, lines 373 and 374: GenerateMarkdown is called
RunGenerateMarkdown ==
  /\ input.kind = "run" /\ cli.pc = "GenerateMarkdown"
  /\ \E iter \in Seeds, iterOp \in Seeds :
       stack' = <<Frame("GenerateMarkdown", Nil, 0, 0,
                        GenerateMarkdown(cli.doc[1], cli.endpointPath, cli.pathItem,
                                         cli.method, iter, iterOp))>>
  /\ cli' = [cli EXCEPT !.pc = "Print", !.steps = Append(@, "GenerateMarkdown")]
  /\ UNCHANGED <<input, md, prev, runs, names, returned, crashed>>

\* run, lines 375 to 377: the text GenerateMarkdown returned is printed and
\* run returns nil
RunPrint ==
  /\ input.kind = "run" /\ cli.pc = "Print" /\ stack = <<>> /\ runs = 1 /\ ~crashed
  /\ cli' = [cli EXCEPT !.pc = "returned", !.stdout = md, !.steps = Append(@, "Print")]
  /\ UNCHANGED <<input, stack, md, prev, runs, names, returned, crashed>>

\* main, lines 330 to 333: the error of run is reported and the process
\* exits
MainExit ==
  /\ input.kind = "run" /\ cli.pc = "returned"
  /\ cli' = IF cli.err # <<>>
              THEN [cli EXCEPT !.pc = "exited", !.stderr = <<"Error: " \o cli.err[1]>>,
                               !.exit = 1]
              ELSE [cli EXCEPT !.pc = "exited"]
  /\ UNCHANGED <<input, stack, md, prev, runs, names, returned, crashed>>

\* GenerateMarkdown panicked inside run: nothing recovers, the runtime
\* reports the panic on standard error and the process exits with status 2
MainPanic ==
  /\ input.kind = "run" /\ cli.pc = "Print" /\ crashed
  /\ cli' = [cli EXCEPT !.pc = "exited", !.exit = 2,
                        !.stderr = <<"panic: runtime error: invalid memory address or nil pointer dereference">>]
  /\ UNCHANGED <<input, stack, md, prev, runs, names, returned, crashed>>

\* a step of the command line other than the call of GenerateMarkdown
CliStep ==
  \/ RunValidateInputFile
  \/ RunLoadOpenAPISpec
  \/ RunFindPathItem
  \/ RunValidateMethod
  \/ RunPrint
  \/ MainExit
  \/ MainPanic

Next ==
  \/ EnterGenerateMarkdown
  \/ EnterFormatSchema
  \/ WriteLines
  \/ CallFormatSchema
  \/ Return
  \/ Crash
  \/ CallSortedHelper
  \/ CallFormatConstraints
  \/ CallFormatType
  \/ CallValidateMethod
  \/ CallNormalizeEndpointPath
  \/ EnterProjection
  \/ RunValidateInputFile
  \/ RunLoadOpenAPISpec
  \/ RunFindPathItem
  \/ RunValidateMethod
  \/ RunGenerateMarkdown
  \/ RunPrint
  \/ MainExit
  \/ MainPanic

Spec == Init /\ [][Next]_vars

\* an activation can be started: the guards of the actions that start one
CanStartActivation ==
  \/ input.kind = "GenerateMarkdown" /\ stack = <<>> /\ ~crashed /\ runs < 2
  \/ input.kind = "FormatSchema" /\ stack = <<>> /\ ~crashed /\ runs = 0
  \/ stack # <<>> /\ Top.items # <<>> /\ Top.items[1].op = "call" /\ Len(stack) < MaxStack
  \/ input.kind = "getSorted" /\ runs = 0
  \/ input.kind = "FormatConstraints" /\ runs = 0
  \/ input.kind = "FormatType" /\ runs = 0
  \/ input.kind = "validateMethod" /\ runs = 0
  \/ input.kind = "normalizeEndpointPath" /\ runs < 2
  \/ input.kind = "run" /\ cli.pc = "GenerateMarkdown"
  \/ input.kind = "Projection" /\ stack = <<>> /\ ~crashed /\ runs < 2

StartActivation ==
  \/ EnterGenerateMarkdown \/ EnterFormatSchema \/ CallFormatSchema \/ CallSortedHelper
  \/ CallFormatConstraints \/ CallFormatType
  \/ CallValidateMethod \/ CallNormalizeEndpointPath \/ RunGenerateMarkdown
  \/ EnterProjection

\* A Go call runs on one goroutine until it returns or panics: a step that
\* can be taken is taken.  That is weak fairness of every action; for the
\* actions that start an activation it is written with their enabling
\* condition spelled out, CanStartActivation.
LiveSpec ==
  /\ Spec
  /\ WF_vars(WriteLines) /\ WF_vars(Return) /\ WF_vars(Crash) /\ WF_vars(CliStep)
  /\ ([]<>(~CanStartActivation) \/ []<><<StartActivation>>_vars)

(***************************************************************************)
(* Vocabulary of the properties.                                           *)
(***************************************************************************)
\* number of lines of text equal to line
Count(text, line) == Cardinality({i \in DOMAIN text : text[i] = line})

Has(text, line) == \E i \in DOMAIN text : text[i] = line

\* position of the first line equal to line
IndexOf(text, line) == CHOOSE i \in DOMAIN text : text[i] = line /\ \A j \in 1..(i - 1) : text[j] # line

\* line a appears in text, and line b after it
Before(text, a, b) == Has(text, a) /\ Has(text, b) /\ IndexOf(text, a) < IndexOf(text, b)

AllMethods == {"GET", "PUT", "DELETE", "POST", "PATCH"}

\* the methods the path item of the input defines
DefinedMethods == input.pathItem.methods

Generated == input.kind = "GenerateMarkdown" /\ Done

Formatted == input.kind = "FormatSchema" /\ Done

\* the operation headings of a text, in the order they appear
Headings(text) ==
  SelectSeq(text, LAMBDA line : \E m \in AllMethods : line = OperationHeading(m, input.path))

\* a ranks before b in byte-wise lexicographic order, stated on the bytes
LexLess(a, b) ==
  \E i \in 1..(Len(a) + 1) :
    /\ \A j \in 1..(i - 1) : j <= Len(b) /\ Ord(a[j]) = Ord(b[j])
    /\ i <= Len(b)
    /\ i <= Len(a) => Ord(a[i]) < Ord(b[i])

(***************************************************************************)
(* Determinism and ordering.                                               *)
(***************************************************************************)
\* C1: generating the document twice from the same document, path, path
\* item and method filter gives the same text, byte for byte.
C1_SameInputsSameText == (Generated /\ runs = 2) => md = prev

\* the names a sorted-key helper returned are the keys of its map, each once,
\* in strictly ascending byte-wise order
SortedKeysOf(result, keys) ==
  /\ Len(result) = Cardinality(keys)
  /\ {result[i] : i \in DOMAIN result} = keys
  /\ \A i \in 1..(Len(result) - 1) : LexLess(result[i], result[i + 1])

\* C2: whatever order the maps are iterated in, property names, content
\* types, header names, example names and status codes are visited in
\* ascending byte-wise order of their keys: each helper returns the keys of
\* its map sorted, and the rendered entries follow that order.
C2_SortedVisitOrder ==
  /\ (input.kind = "getSorted" /\ runs = 1) => SortedKeysOf(names, input.keys)
  /\ (Formatted /\ input.schema = Person /\ input.maxDepth >= 1) =>
       LET prefix == Repeat("  ", input.indent)
       IN /\ Before(md, prefix \o "  - **Z**", prefix \o "  - **a** **(required)**")
          /\ Before(md, prefix \o "  - **a** **(required)**", prefix \o "  - **ab**: display name")
  /\ (Generated /\ "GET" \in DefinedMethods /\ input.method \in {"", "GET"}) =>
       /\ Before(md, "#### 200", "#### 404")
       /\ Before(md, "*Example: 'bad'*:", "*An item* ('one'):")
  /\ (Generated /\ "POST" \in DefinedMethods /\ input.method \in {"", "POST"}) =>
       Before(md, "**Content-Type:** 'application/json'", "**Content-Type:** 'text/plain'")

\* a helper was handed three keys whose sorted order differs from the
\* order they were written in
C2_Witness ==
  /\ input.kind = "getSorted" /\ runs = 1
  /\ input.keys = {<<"a","b">>, <<"Z">>, <<"1","0">>}
  /\ names = << <<"1","0">>, <<"Z">>, <<"a","b">> >>

\* C3: the schemes of a security requirement are listed in a fixed order
\* (ascending by name), whatever order the map is iterated in.
C3_SecuritySchemesInFixedOrder ==
  (Generated /\ "GET" \in DefinedMethods /\ input.method \in {"", "GET"}) =>
    Before(md, "- **apiKey**", "- **oauth**: read, write")

\* C4: with an empty method filter the operations of a path appear in one
\* fixed order, the same on every run.
C4_OperationsInFixedOrder ==
  (Generated /\ runs = 2 /\ input.method = "") => Headings(md) = Headings(prev)

(***************************************************************************)
(* Method filtering.                                                       *)
(***************************************************************************)
\* every operation of the documents has a summary of its own
SummaryLine(method) == "**Summary:** " \o OperationOf(method).Summary

\* number of operation fragments in a text: each ends with one separator
Fragments(text) == Count(text, SeparatorOperation[1])

\* C5: with a non-empty method filter F, a defined operation with method M
\* is rendered exactly when M equals F, compared case-sensitively; every
\* other defined operation is skipped and contributes no text.
C5_FilterKeepsOnlyMatchingMethod ==
  (Generated /\ input.method # "") =>
    /\ \A m \in AllMethods :
         Count(md, OperationHeading(m, input.path)) =
           IF m \in DefinedMethods /\ m = input.method THEN 1 ELSE 0
    /\ \A m \in AllMethods \ {input.method} : ~Has(md, SummaryLine(m))
    /\ Fragments(md) = IF input.method \in DefinedMethods THEN 1 ELSE 0

\* three operations are defined and the filter selected PUT alone
C5_Witness ==
  /\ Generated /\ input.method = "PUT"
  /\ DefinedMethods = {"GET", "PUT", "DELETE"}
  /\ Has(md, OperationHeading("PUT", input.path))
  /\ ~Has(md, OperationHeading("GET", input.path))
  /\ ~Has(md, OperationHeading("DELETE", input.path))

\* C6: with an empty method filter every operation the path item defines is
\* rendered exactly once, and nothing is rendered for a method it does not
\* define.
C6_EmptyFilterRendersEachDefinedOnce ==
  (Generated /\ input.method = "") =>
    /\ \A m \in AllMethods :
         LET expected == IF m \in DefinedMethods THEN 1 ELSE 0
         IN /\ Count(md, OperationHeading(m, input.path)) = expected
            /\ Count(md, SummaryLine(m)) = expected
    /\ Fragments(md) = Cardinality(DefinedMethods)

\* three of the four methods are defined and all three were rendered
C6_Witness ==
  /\ Generated /\ input.method = ""
  /\ DefinedMethods = {"GET", "PUT", "DELETE"}
  /\ \A m \in DefinedMethods : Has(md, OperationHeading(m, input.path))
  /\ ~Has(md, OperationHeading("POST", input.path))

(***************************************************************************)
(* Depth bounding and termination.                                         *)
(***************************************************************************)
\* FormatSchema was called with the default budget on a chain schema that
\* has at least 21 levels: level 1 is the schema itself, level k + 1 the
\* property of level k
DeepChainFormatted ==
  /\ Formatted
  /\ input.schema \in 1..(ChainLen - MaxRecursionDepth)
  /\ input.maxDepth = MaxRecursionDepth

\* levels of the chain below the schema FormatSchema was called with
ChainLevels == 1..(ChainLen - input.schema + 1)

LevelPrefix(k) == Repeat("  ", input.indent + 2 * (k - 1))

\* the lines of level k >= 2: the name it is reached under and its type,
\* both in the property list of level k - 1
LevelNameLine(k) == LevelPrefix(k - 1) \o "  - **" \o Str(ChainKey(input.schema + k - 1)) \o "**"

\* the type line of level k: for k >= 2 it is written in the property list
\* of level k - 1 and again, with the same text, by level k itself
LevelTypeLine(k) == LevelPrefix(k) \o "- Type: 'object'"

LevelPropertiesLine(k) == LevelPrefix(k) \o "- Properties:"

\* number of max-depth bullets of a text, at any indent
MaxDepthBullets(text) ==
  Cardinality({i \in DOMAIN text :
     \E j \in 0..(MaxIndent + 3 * MaxRecursionDepth + 3) : text[i] = MaxDepthLine(Repeat("  ", j))})

\* C7 as stated: from the default budget of 20 a chain of 25 nested objects
\* renders exactly 20 levels, then one max-depth bullet, and no property
\* name or type line of level 21 and beyond.
C7_NothingOfLevel21 ==
  DeepChainFormatted =>
    /\ \A k \in 1..MaxRecursionDepth : Count(md, LevelPropertiesLine(k)) = 1
    /\ MaxDepthBullets(md) = 1
    /\ \A k \in ChainLevels :
         k > MaxRecursionDepth => ~Has(md, LevelNameLine(k)) /\ ~Has(md, LevelTypeLine(k))

\* C7, amended: levels 1 to 20 are rendered in full; of level 21 only the
\* entry in the property list of level 20 appears (its name and its type
\* line), followed by the one max-depth bullet that ends the text; nothing
\* of level 22 and beyond is emitted.
C7_DepthBounding ==
  DeepChainFormatted =>
    LET last == MaxRecursionDepth + 1
    IN /\ \A k \in 1..MaxRecursionDepth :
            /\ Count(md, LevelPropertiesLine(k)) = 1
            /\ Count(md, LevelTypeLine(k)) = IF k = 1 THEN 1 ELSE 2
            /\ k >= 2 => Count(md, LevelNameLine(k)) = 1
       /\ Count(md, LevelNameLine(last)) = 1
       /\ Count(md, LevelTypeLine(last)) = 1
       /\ ~Has(md, LevelPropertiesLine(last))
       /\ MaxDepthBullets(md) = 1
       /\ Len(md) = 4 * MaxRecursionDepth + 1
       /\ md[Len(md) - 2] = LevelNameLine(last)
       /\ md[Len(md) - 1] = LevelTypeLine(last)
       /\ md[Len(md)] = MaxDepthLine(LevelPrefix(last))
       /\ \A k \in ChainLevels :
            k > last => /\ ~Has(md, LevelNameLine(k))
                        /\ ~Has(md, LevelTypeLine(k))
                        /\ ~Has(md, LevelPropertiesLine(k))

\* the chain of ChainLen objects was rendered from its first schema and the
\* text ends with the bullet
C7_Witness ==
  /\ DeepChainFormatted /\ input.schema = 1
  /\ md # <<>> /\ md[Len(md)] = MaxDepthLine(LevelPrefix(MaxRecursionDepth + 1))

\* the activations of FormatSchema in progress, outermost first
FormatSchemaFrames == SelectSeq(stack, LAMBDA f : f.fn = "FormatSchema")

\* the budget the outermost activation of FormatSchema starts from
StartBudget ==
  IF input.kind = "FormatSchema" THEN input.maxDepth ELSE MaxRecursionDepth

\* every nested activation has one less than its caller, none has less than
\* none, and so at most StartBudget activations are nested in the first
DepthWithinBudget ==
  LET frames == FormatSchemaFrames
  IN /\ \A i \in 1..(Len(frames) - 1) : frames[i + 1].maxDepth = frames[i].maxDepth - 1
     /\ \A i \in 1..Len(frames) : frames[i].maxDepth >= 0
     /\ Len(frames) >= 1 => frames[1].maxDepth = StartBudget
     /\ Len(frames) - 1 <= StartBudget

\* the run is over: every call the caller makes returned, or one ended in a
\* panic
Terminated ==
  /\ stack = <<>>
  /\ crashed \/ runs >= (IF input.kind \in {"GenerateMarkdown", "Projection"} THEN 2 ELSE 1)

\* C8: FormatSchema terminates on every schema graph, cyclic ones included,
\* for every starting budget, and the depth of its recursion never exceeds
\* the budget it started from.
C8_Termination == []DepthWithinBudget /\ <>Terminated

\* a schema that reaches itself was rendered until the budget ran out
C8_Witness ==
  /\ Formatted
  /\ input.schema \in {SelfObject, SelfArray, SelfOneOf, SelfAnyOf, SelfAllOf}
  /\ input.maxDepth = MaxRecursionDepth
  /\ MaxDepthBullets(md) >= 1

(***************************************************************************)
(* Composition.                                                            *)
(***************************************************************************)
CompositionKeywords == {"oneOf", "anyOf", "allOf"}

CompositionDescription(keyword) ==
  CASE keyword = "oneOf" -> "one of the following"
    [] keyword = "anyOf" -> "any of the following"
    [] keyword = "allOf" -> "all of the following"

\* the heading of a composition block at an indent
CompositionHeading(keyword, indent) ==
  Repeat("  ", indent) \o "- **" \o keyword \o "** (" \o CompositionDescription(keyword) \o "):"

\* the list a schema carries under a keyword
CompositionList(schema, keyword) ==
  CASE keyword = "oneOf" -> Heap[schema].OneOf
    [] keyword = "anyOf" -> Heap[schema].AnyOf
    [] keyword = "allOf" -> Heap[schema].AllOf

\* the keyword the priority rule selects: oneOf, else anyOf, else allOf
SelectedKeyword(schema) ==
  IF CompositionList(schema, "oneOf") # <<>> THEN "oneOf"
  ELSE IF CompositionList(schema, "anyOf") # <<>> THEN "anyOf"
  ELSE "allOf"

\* FormatSchema returned the text of one of the object schemas that carry
\* every combination of composition lists; their members carry none
CompositionFormatted ==
  /\ Formatted
  /\ input.schema \in (CompositionBase + 1)..ExtraBase
  /\ input.maxDepth >= 1

\* C9: of the composition lists a schema carries only one is rendered,
\* oneOf before anyOf before allOf, and the schema gets no output of its
\* own type.
C9_CompositionPriority ==
  CompositionFormatted =>
    LET selected == SelectedKeyword(input.schema)
        prefix == Repeat("  ", input.indent)
    IN /\ md # <<>> /\ md[1] = CompositionHeading(selected, input.indent)
       /\ \A keyword \in CompositionKeywords, indent \in 0..(MaxIndent + 3) :
            Count(md, CompositionHeading(keyword, indent)) =
              IF keyword = selected /\ indent = input.indent THEN 1 ELSE 0
       /\ ~Has(md, prefix \o "- Type: 'object'")
       /\ ~Has(md, prefix \o "- Properties:")
       /\ ~Has(md, prefix \o "  - **a**")

\* a schema with oneOf and allOf, and no anyOf, was rendered as oneOf
C9_Witness ==
  /\ CompositionFormatted
  /\ Heap[input.schema].OneOf # <<>> /\ Heap[input.schema].AllOf # <<>>
  /\ Heap[input.schema].AnyOf = <<>>
  /\ md[1] = CompositionHeading("oneOf", input.indent)

\* the sub-bullet of the n-th member under a keyword
MemberLabel(keyword, n, indent) ==
  Repeat("  ", indent) \o "  - " \o (IF keyword = "allOf" THEN "Schema " ELSE "Option ") \o
  ToString(n) \o ":"

\* the first line of the text of a member that is an object or a primitive
MemberTypeLine(member, indent) ==
  Repeat("  ", indent) \o "- Type: '" \o FormatType(At(member)) \o "'"

\* C10: the members of a composition list are rendered in list order, the
\* n-th under the sub-bullet 'Option n' for oneOf and anyOf and 'Schema n'
\* for allOf.
C10_MemberLabels ==
  (CompositionFormatted /\ input.maxDepth >= 2) =>
    LET selected == SelectedKeyword(input.schema)
        members == CompositionList(input.schema, selected)
    IN \A n \in 1..Len(members) :
         LET label == MemberLabel(selected, n, input.indent)
         IN /\ Count(md, label) = 1
            /\ md[IndexOf(md, label) + 1] = MemberTypeLine(members[n].Value, input.indent + 2)
            /\ n > 1 => Before(md, MemberLabel(selected, n - 1, input.indent), label)

(***************************************************************************)
(* Composition inside object properties.                                   *)
(***************************************************************************)
\* FormatSchema returned the text of UnionHolder with budget for its
\* properties and their composition members
UnionHolderFormatted ==
  /\ Formatted
  /\ input.schema = UnionHolder
  /\ input.maxDepth >= 3

\* the inline type line of a property of the schema rendered at an indent
InlineTypeLine(type, indent) == Repeat("  ", indent) \o "    - Type: '" \o type \o "'"

\* C11: a schema that carries a composition list is rendered through that
\* list wherever it is reached; an object property whose schema carries one
\* gets the composition block and no inline type line.
C11_PropertyCompositionRendered ==
  UnionHolderFormatted =>
    /\ Count(md, CompositionHeading("oneOf", input.indent + 2)) = 2
    /\ ~Has(md, InlineTypeLine("unknown", input.indent))
    /\ ~Has(md, InlineTypeLine("object", input.indent))

(***************************************************************************)
(* Properties of an object.                                                *)
(***************************************************************************)
\* FormatSchema returned the text of an object schema without composition
\* lists, with budget for its own block
ObjectFormatted ==
  /\ Formatted
  /\ input.schema # Nil
  /\ input.maxDepth >= 1
  /\ LET s == Heap[input.schema]
     IN /\ s.Type = <<(<<"object">>)>>
        /\ s.OneOf = <<>> /\ s.AnyOf = <<>> /\ s.AllOf = <<>>

\* the properties of the schema that have a value
ValuedProperties(schema) ==
  {p \in DOMAIN Heap[schema].Properties :
     ~Heap[schema].Properties[p].nil /\ Heap[schema].Properties[p].Value # Nil}

\* the name is an element of the schema's required-name list
ListedRequired(schema, name) ==
  \E i \in DOMAIN Heap[schema].Required : Heap[schema].Required[i] = name

\* the entry line of a property in the Properties block, with or without
\* the required marker
PropertyEntryLine(schema, name, marked, indent) ==
  LET prop == Heap[Heap[schema].Properties[name].Value]
  IN Repeat("  ", indent) \o "  - **" \o Str(name) \o "**" \o
     (IF marked THEN MarkerRequired ELSE "") \o
     (IF prop.Deprecated THEN MarkerDeprecated ELSE "") \o
     (IF prop.Description # "" THEN ": " \o prop.Description ELSE "")

\* C12: in the Properties block of an object a property carries the
\* required marker if and only if its exact name is an element of the
\* object's required-name list.
C12_RequiredMarker ==
  ObjectFormatted =>
    \A p \in ValuedProperties(input.schema) :
      /\ Count(md, PropertyEntryLine(input.schema, p, TRUE, input.indent)) =
           (IF ListedRequired(input.schema, p) THEN 1 ELSE 0)
      /\ Count(md, PropertyEntryLine(input.schema, p, FALSE, input.indent)) =
           (IF ListedRequired(input.schema, p) THEN 0 ELSE 1)

\* Account was rendered: 'id' and 'name', listed second and last, are
\* marked, 'Id' and 'note' are not
C12_Witness ==
  /\ ObjectFormatted
  /\ input.schema = Account
  /\ input.indent = 0
  /\ Has(md, "  - **id** **(required)**")
  /\ Has(md, "  - **name** **(required)**")
  /\ Has(md, "  - **Id**")
  /\ Has(md, "  - **note**")

(***************************************************************************)
(* FormatConstraints and FormatType.                                       *)
(***************************************************************************)
ConstraintsFormatted == input.kind = "FormatConstraints" /\ runs = 1

\* the text of a lower and an upper bound of the same kind: the lower bound
\* counts when it is positive, the upper bound when it is set
BoundsText(lower, min, upper, max) ==
  (IF min > 0 THEN lower \o ": " \o ToString(min) ELSE "") \o
  (IF min > 0 /\ max # <<>> THEN ", " ELSE "") \o
  (IF max # <<>> THEN upper \o ": " \o ToString(max[1]) ELSE "")

\* C13: minLength, minItems and minProperties are emitted only when
\* greater than 0; maxLength, maxItems and maxProperties are emitted
\* whenever they are set, also when set to 0.
C13_ConstraintAsymmetry ==
  (ConstraintsFormatted /\ input.schema # <<>>) =>
    LET s == input.schema[1]
        bare == [EmptySchema EXCEPT !.Type = s.Type]
    IN /\ s = [bare EXCEPT !.MinLength = s.MinLength, !.MaxLength = s.MaxLength]
            => returned = BoundsText("minLength", s.MinLength, "maxLength", s.MaxLength)
       /\ s = [bare EXCEPT !.MinItems = s.MinItems, !.MaxItems = s.MaxItems]
            => returned = BoundsText("minItems", s.MinItems, "maxItems", s.MaxItems)
       /\ s = [bare EXCEPT !.MinProps = s.MinProps, !.MaxProps = s.MaxProps]
            => returned = BoundsText("minProperties", s.MinProps, "maxProperties", s.MaxProps)

\* a schema with minLength 0 and maxLength 0 gave 'maxLength: 0'
C13_Witness ==
  /\ ConstraintsFormatted
  /\ input.schema =
       <<[EmptySchema EXCEPT !.Type = <<(<<"string">>)>>, !.MaxLength = <<0>>]>>
  /\ returned = "maxLength: 0"

\* the order in which the constraints are listed
ConstraintOrder ==
  << "minLength", "maxLength", "pattern", "min", "max", "multipleOf",
     "minItems", "maxItems", "uniqueItems", "minProperties", "maxProperties" >>

\* the text of one constraint of a schema, "" when the constraint is absent
ConstraintText(s, name) ==
  CASE name = "minLength" ->
         IF s.MinLength > 0 THEN "minLength: " \o ToString(s.MinLength) ELSE ""
    [] name = "maxLength" ->
         IF s.MaxLength # <<>> THEN "maxLength: " \o ToString(s.MaxLength[1]) ELSE ""
    [] name = "pattern" ->
         IF s.Pattern # "" THEN "pattern: '" \o s.Pattern \o "'" ELSE ""
    [] name = "min" ->
         IF s.Min # <<>>
           THEN "min: " \o ToString(s.Min[1]) \o (IF s.ExclusiveMin THEN " (exclusive)" ELSE "")
           ELSE ""
    [] name = "max" ->
         IF s.Max # <<>>
           THEN "max: " \o ToString(s.Max[1]) \o (IF s.ExclusiveMax THEN " (exclusive)" ELSE "")
           ELSE ""
    [] name = "multipleOf" ->
         IF s.MultipleOf # <<>> THEN "multipleOf: " \o ToString(s.MultipleOf[1]) ELSE ""
    [] name = "minItems" ->
         IF s.MinItems > 0 THEN "minItems: " \o ToString(s.MinItems) ELSE ""
    [] name = "maxItems" ->
         IF s.MaxItems # <<>> THEN "maxItems: " \o ToString(s.MaxItems[1]) ELSE ""
    [] name = "uniqueItems" ->
         IF s.UniqueItems THEN "uniqueItems: true" ELSE ""
    [] name = "minProperties" ->
         IF s.MinProps > 0 THEN "minProperties: " \o ToString(s.MinProps) ELSE ""
    [] name = "maxProperties" ->
         IF s.MaxProps # <<>> THEN "maxProperties: " \o ToString(s.MaxProps[1]) ELSE ""

\* the texts of the constraints a schema has, in the order of ConstraintOrder
PresentConstraints(s) ==
  SelectSeq([i \in DOMAIN ConstraintOrder |-> ConstraintText(s, ConstraintOrder[i])],
            LAMBDA text : text # "")

\* C14: FormatConstraints lists the constraints that are present, each
\* once, comma-joined in the order minLength, maxLength, pattern, min, max,
\* multipleOf, minItems, maxItems, uniqueItems, minProperties,
\* maxProperties; for an absent schema or one without a constraint it
\* returns the empty string.
C14_ConstraintOrder ==
  ConstraintsFormatted =>
    returned = IF input.schema = <<>> THEN ""
               ELSE Join(PresentConstraints(input.schema[1]), ", ")

\* a schema with a pattern, an exclusive minimum, maxItems and
\* minProperties and nothing else gave the four in the fixed order
C14_Witness ==
  /\ ConstraintsFormatted
  /\ input.schema # <<>>
  /\ returned = "pattern: '^a', min: 1 (exclusive), maxItems: 4, minProperties: 1"

TypeFormatted == input.kind = "FormatType" /\ runs = 1

\* the type names a schema declares, in declaration order; none for the
\* absent schema and for a schema without a type list
DeclaredTypes(schema) ==
  IF schema = <<>> \/ schema[1].Type = <<>> THEN <<>> ELSE schema[1].Type[1]

\* the names of a list separated by ' | ', first to last
RECURSIVE PipeJoined(_)
PipeJoined(types) ==
  IF Len(types) = 1 THEN types[1]
  ELSE PipeJoined(SubSeq(types, 1, Len(types) - 1)) \o " | " \o types[Len(types)]

\* C15: FormatType returns 'unknown' for an absent schema and for a schema
\* with no declared type, the name itself for one declared type, and the
\* names joined by ' | ' in declaration order for several.
C15_FormatTypeTotal ==
  TypeFormatted =>
    LET types == DeclaredTypes(input.schema)
    IN returned = IF Len(types) = 0 THEN "unknown"
                  ELSE IF Len(types) = 1 THEN types[1]
                  ELSE PipeJoined(types)

\* a list declared as string, null, integer, which is not its sorted order,
\* was returned as declared
C15_Witness ==
  /\ TypeFormatted
  /\ DeclaredTypes(input.schema) = <<"string", "null", "integer">>
  /\ returned = "string | null | integer"

(***************************************************************************)
(* Enumerated values and the object branch.                                *)
(***************************************************************************)
\* the schema carries no composition list
NoComposition(schema) ==
  Heap[schema].OneOf = <<>> /\ Heap[schema].AnyOf = <<>> /\ Heap[schema].AllOf = <<>>

\* FormatSchema returned the text of a schema without composition lists
\* that has enum values and is neither object- nor array-typed
EnumFormatted ==
  /\ Formatted
  /\ input.schema # Nil
  /\ input.maxDepth >= 1
  /\ NoComposition(input.schema)
  /\ Heap[input.schema].Enum # <<>>
  /\ DeclaredTypes(At(input.schema)) \notin {<<"object">>, <<"array">>}

\* the values of a list separated by spaces, first to last
RECURSIVE SpaceJoined(_)
SpaceJoined(values) ==
  IF Len(values) = 1 THEN values[1]
  ELSE SpaceJoined(SubSeq(values, 1, Len(values) - 1)) \o " " \o values[Len(values)]

AllowedValuesLine(schema, indent) ==
  Repeat("  ", indent) \o "- Allowed values: [" \o SpaceJoined(Heap[schema].Enum) \o "]"

\* C16: for every schema without composition list that has enum values and
\* is neither object- nor array-typed, also one that declares no type,
\* FormatSchema writes an 'Allowed values:' line with the values in their
\* order.
C16_EnumRendered ==
  EnumFormatted => Count(md, AllowedValuesLine(input.schema, input.indent)) = 1

\* FormatSchema returned the text of a schema without composition lists
\* whose declared type list includes object
ObjectTypedFormatted ==
  /\ Formatted
  /\ input.schema # Nil
  /\ input.maxDepth >= 1
  /\ NoComposition(input.schema)
  /\ \E i \in DOMAIN DeclaredTypes(At(input.schema)) :
       DeclaredTypes(At(input.schema))[i] = "object"

\* C17: a schema without composition lists whose type list includes
\* object, alone or with another type name, is rendered by the object
\* branch: the line 'Type: object' first, the nullable flag if set, and a
\* 'Properties:' block exactly when it has a property.
C17_ObjectBranch ==
  ObjectTypedFormatted =>
    LET s == Heap[input.schema]
        prefix == Repeat("  ", input.indent)
    IN /\ md # <<>> /\ md[1] = prefix \o "- Type: 'object'"
       /\ Has(md, prefix \o "- Nullable: 'true'") <=> s.Nullable
       /\ Has(md, prefix \o "- Properties:") <=> DOMAIN s.Properties # {}

(***************************************************************************)
(* Examples and missing data.                                              *)
(***************************************************************************)
\* the lines appear in the text one after the other, starting at position i
LinesAt(text, i, lines) ==
  /\ i + Len(lines) - 1 <= Len(text)
  /\ \A k \in DOMAIN lines : text[i + k - 1] = lines[k]

\* a block of lines a appears in the text, and a block of lines b after it
BlockBefore(text, a, b) ==
  \E i, j \in DOMAIN text :
    LinesAt(text, i, a) /\ LinesAt(text, j, b) /\ i + Len(a) <= j

\* GenerateMarkdown returned a text that renders the GET operation, whose
\* 200 response has the examples 'bad' (a channel), 'nil' (no value) and
\* 'one'
GetRendered ==
  /\ Generated
  /\ "GET" \in DefinedMethods
  /\ input.method \in {"", "GET"}

BadExampleBlock == <<"*Example: 'bad'*:", "", "'''", "0xc000012345", "'''", "">>

NilExampleBlock == <<"*Example: 'nil'*:", "", "'''json", "{}", "'''", "">>

OneExampleBlock == <<"*An item* ('one'):", "", "'''json", "\"item-1\"", "'''", "">>

\* C18: an example value that cannot be serialized is written in its
\* default textual form inside a plain fenced block, the run goes on, and
\* every later example and section is rendered; a nil example value is
\* written as {} in a json block.
C18_ExampleFailureRecovered ==
  /\ (input.kind = "GenerateMarkdown" /\ "GET" \in DefinedMethods) => ~crashed
  /\ GetRendered =>
       /\ BlockBefore(md, BadExampleBlock, NilExampleBlock)
       /\ BlockBefore(md, NilExampleBlock, OneExampleBlock)
       /\ BlockBefore(md, OneExampleBlock, <<"#### 404", "", "Not found", "">>)
       /\ BlockBefore(md, <<"#### 404", "", "Not found", "">>, HeaderSecurity)
       /\ BlockBefore(md, HeaderSecurity, SeparatorOperation)

\* the GET operation was rendered with the channel's address in a plain
\* block and with what follows it
C18_Witness ==
  /\ GetRendered
  /\ BlockBefore(md, BadExampleBlock, NilExampleBlock)
  /\ Has(md, "#### 404")

\* C19: a nil or value-less entry in the input only leaves its subsection
\* out; GenerateMarkdown never crashes because of it.
C19_NeverCrashes == input.kind = "GenerateMarkdown" => ~crashed

\* C20: for a nil path item GenerateMarkdown returns the empty string,
\* whatever the path and the method filter: not even the endpoint header is
\* written.
C20_NilPathItemEmpty ==
  (input.kind = "GenerateMarkdown" /\ input.pathItem.nil) => (md = <<>> /\ ~crashed)

\* GenerateMarkdown returned the empty text for a nil path item, on the
\* document with metadata and with a method filter
C20_Witness ==
  /\ Generated
  /\ input.pathItem.nil
  /\ input.doc = 2
  /\ input.method = "GET"
  /\ md = <<>>

(***************************************************************************)
(* The header section and the operation fragments.                         *)
(***************************************************************************)
\* the line starts with the given text
StartsWith(line, start) ==
  Len(line) >= Len(start) /\ SubSeq(line, 1, Len(start)) = start

\* the header section of the two documents: the endpoint heading, and for
\* the second document its title, version and base URLs
HeaderSection(doc, path) ==
  <<"# API Endpoint: " \o path, "">> \o
  (IF doc = 2
     THEN <<"**API:** Test API 1.0.0", "", "**Base URL(s):**",
            "- 'https://api.example.com' - Test Server", "- 'http://localhost:8080'", "">>
     ELSE <<>>)

\* C21: a path item that is not nil and defines no operation renders the
\* header section alone, for every filter: no level-2 heading and no
\* separator.
C21_NoOperationsHeaderOnly ==
  (Generated /\ ~input.pathItem.nil /\ DefinedMethods = {}) =>
    /\ md = HeaderSection(input.doc, input.path)
    /\ \A i \in DOMAIN md : ~StartsWith(md[i], "## ")
    /\ Count(md, "---") = 0

\* the empty path item was rendered with the PUT filter on the document
\* with metadata
C21_Witness ==
  /\ Generated /\ ~input.pathItem.nil /\ DefinedMethods = {}
  /\ input.method = "PUT" /\ input.doc = 2
  /\ Len(md) = 8

\* the lines appear in the text in the order of the list, each after the
\* one before; lines next to each other in a block stay next to each other
RECURSIVE BlocksInOrder(_, _, _)
BlocksInOrder(text, from, blocks) ==
  \/ blocks = <<>>
  \/ \E i \in from..Len(text) :
       /\ LinesAt(text, i, Head(blocks))
       /\ BlocksInOrder(text, i + Len(Head(blocks)), Tail(blocks))

\* GenerateMarkdown returned a text that renders GET, whose 200 response
\* schema is an object with the required string property id and the
\* optional string property name
ItemRendered ==
  /\ Generated
  /\ "GET" \in DefinedMethods
  /\ input.method \in {"", "GET"}

\* C22: the text of a GET whose 200 response is an object with required id
\* and optional name holds, in this order: the endpoint heading, the GET
\* heading, the Responses heading, the 200 heading, the object type line,
\* the Properties line, id with the required marker and its string type
\* line, name without the marker and its string type line.
C22_EndToEndOrder ==
  ItemRendered =>
    /\ md[1] = "# API Endpoint: " \o input.path
    /\ BlocksInOrder(md, 1,
         << <<"# API Endpoint: " \o input.path>>,
            <<"## GET " \o input.path>>,
            <<"### Responses">>,
            <<"#### 200">>,
            <<"- Type: 'object'", "- Properties:",
              "  - **id** **(required)**", "    - Type: 'string'",
              "  - **name**", "    - Type: 'string'">> >>)
    /\ ~Has(md, "  - **name** **(required)**")
    /\ ~Has(md, "  - **id**")

\* the GET of /items/{id} was rendered without a filter, next to two other
\* operations
C22_Witness ==
  /\ ItemRendered
  /\ input.path = "/items/{id}" /\ input.method = ""
  /\ DefinedMethods = {"GET", "PUT", "DELETE"}
  /\ Has(md, "  - **id** **(required)**")

\* the orderings of a finite set
Orders(S) ==
  {order \in [1..Cardinality(S) -> S] :
     \A i, j \in 1..Cardinality(S) : i # j => order[i] # order[j]}

ValidateMethodCalled == input.kind = "validateMethod" /\ runs = 1

C23_WitnessAccepted ==
  /\ ValidateMethodCalled
  /\ DefinedMethods = {"GET", "PUT", "DELETE"}
  /\ input.method = "GET"
  /\ returned = <<>>

RunStarted == input.kind = "run"

\* the calls run makes, in the order of its text, with and without a method
PipelineOrder(withMethod) ==
  <<"validateInputFile", "loadOpenAPISpec", "findPathItem">>
  \o (IF withMethod THEN <<"validateMethod">> ELSE <<>>)
  \o <<"GenerateMarkdown", "Print">>

IsPrefix(s, t) == Len(s) <= Len(t) /\ s = SubSeq(t, 1, Len(s))

\* the method the command line asks for, "" when none is given
RequestedMethod ==
  CASE input.method \in {"GET", "get"} -> "GET"
    [] input.method = " put " -> "PUT"
    [] input.method = "POST" -> "POST"
    [] OTHER -> ""

\* the methods the document defines for the endpoint the command line names;
\* <<>> when the document has no such endpoint
EndpointMethods ==
  CASE input.endpointPath \in {ItemsPath, Tail(ItemsPath)} -> <<{"GET", "PUT", "DELETE"}>>
    [] input.endpointPath = <<>> -> <<{}>>
    [] input.endpointPath = <<"p">> -> <<{"PATCH"}>>
    [] OTHER -> <<>>

\* the arguments for which one of the steps before GenerateMarkdown fails
FailingArguments ==
  \/ input.file # CliFile
  \/ EndpointMethods = <<>>
  \/ RequestedMethod # "" /\ RequestedMethod \notin EndpointMethods[1]

Printed == RunStarted /\ Has(cli.steps, "Print")

\* C24: run calls validateInputFile, loadOpenAPISpec, findPathItem, then
\* validateMethod when a method is given, then GenerateMarkdown, and only then
\* prints; it prints only for arguments that pass every one of these steps;
\* when a step fails run returns its error, nothing is on standard output,
\* and main writes "Error: <message>" to standard error and exits with a
\* non-zero status.
C24_PipelineOrdering ==
  RunStarted =>
    /\ IsPrefix(cli.steps, PipelineOrder(RequestedMethod # ""))
    /\ Printed => ~FailingArguments /\ cli.err = <<>> /\ cli.stdout = md
    /\ ~Printed => cli.stdout = <<>>
    /\ cli.err # <<>> => ~Printed /\ ~Has(cli.steps, "GenerateMarkdown")
    /\ cli.pc \in {"returned", "exited"} /\ FailingArguments => cli.err # <<>>
    /\ cli.pc = "exited" /\ cli.err # <<>> =>
         cli.exit # 0 /\ cli.stderr = <<"Error: " \o cli.err[1]>>
    /\ cli.pc = "exited" /\ cli.err = <<>> /\ ~crashed =>
         Printed /\ cli.exit = 0 /\ cli.stderr = <<>>

\* the document is printed after all six steps, method validation included
C24_Witness ==
  /\ RunStarted /\ cli.pc = "exited"
  /\ cli.steps = PipelineOrder(TRUE)
  /\ cli.stdout # <<>>
  /\ cli.exit = 0

\* method validation fails: main reports and exits with status 1
C24_WitnessFailure ==
  /\ RunStarted /\ cli.pc = "exited"
  /\ cli.steps = <<"validateInputFile", "loadOpenAPISpec", "findPathItem", "validateMethod">>
  /\ cli.stdout = <<>>
  /\ cli.exit = 1

NormalizeCalled == input.kind = "normalizeEndpointPath" /\ runs >= 1

\* C25: normalizeEndpointPath returns a string that starts with "/": an
\* argument that starts with "/" is returned unchanged, any other argument,
\* the empty string included, is returned with one "/" put in front; applying
\* the function to its own result changes nothing.
C25_NormalizeEndpointPath ==
  NormalizeCalled =>
    LET path == input.path
        slashFirst == path # <<>> /\ path[1] = "/"
        once == IF runs = 1 THEN returned ELSE prev
    IN /\ once # <<>> /\ once[1] = "/"
       /\ slashFirst => once = path
       /\ ~slashFirst => once = <<"/">> \o path
       /\ runs = 2 => returned = once

\* "a{" becomes "/a{", and a second application leaves "/a{"
C25_Witness ==
  /\ input.kind = "normalizeEndpointPath" /\ runs = 2
  /\ input.path = <<"a", "{">>
  /\ prev = <<"/", "a", "{">>
  /\ returned = prev

\* the empty string becomes "/"
C25_WitnessEmpty ==
  /\ NormalizeCalled
  /\ input.path = <<>>
  /\ returned = <<"/">>

\* child is the value of a member of a composition list of parent
IsCompositionMember(parent, child) ==
  \E list \in {Heap[parent].OneOf, Heap[parent].AnyOf, Heap[parent].AllOf} :
    \E i \in DOMAIN list : ~list[i].nil /\ list[i].Value = child

\* child is the value of an object-typed property of parent
IsObjectProperty(parent, child) ==
  /\ TypeIs(Heap[parent].Type, "object")
  /\ \E name \in DOMAIN Heap[parent].Properties :
       /\ Heap[parent].Properties[name] = Ref(child)
       /\ TypeIs(Heap[child].Type, "object")

\* child is the items schema of an array-typed property of parent
IsPropertyItems(parent, child) ==
  /\ TypeIs(Heap[parent].Type, "object")
  /\ \E name \in DOMAIN Heap[parent].Properties :
       LET propRef == Heap[parent].Properties[name]
       IN /\ ~propRef.nil /\ propRef.Value # Nil
          /\ TypeIs(Heap[propRef.Value].Type, "array")
          /\ Heap[propRef.Value].Items = Ref(child)

\* child is the items schema of the array parent
IsArrayItems(parent, child) ==
  TypeIs(Heap[parent].Type, "array") /\ Heap[parent].Items = Ref(child)

\* an activation of FormatSchema is running inside another, entered through
\* the given relation, with one less than the caller's budget
NestedThrough(Related(_, _)) ==
  \E i \in 1..(Len(stack) - 1) :
    /\ stack[i].fn = "FormatSchema" /\ stack[i + 1].fn = "FormatSchema"
    /\ Related(stack[i].schema, stack[i + 1].schema)
    /\ stack[i + 1].maxDepth = stack[i].maxDepth - 1
    /\ stack[i].maxDepth > 0

\* C26: every call of FormatSchema made by an activation of FormatSchema, at
\* whichever call site (object-typed property, items of an array-typed
\* property, items of an array, composition member), passes the caller's
\* budget minus one: this holds for each call the activation is still to
\* make and for each activation running inside another.
C26_BudgetDecrement ==
  /\ \A i \in DOMAIN stack :
       stack[i].fn = "FormatSchema" =>
         \A k \in DOMAIN stack[i].items :
           stack[i].items[k].op = "call" =>
             stack[i].items[k].maxDepth = stack[i].maxDepth - 1
  /\ \A i \in 1..(Len(stack) - 1) :
       stack[i].fn = "FormatSchema" =>
         /\ stack[i + 1].fn = "FormatSchema"
         /\ stack[i + 1].maxDepth = stack[i].maxDepth - 1

\* a composition member is being rendered
C26_Witness == NestedThrough(IsCompositionMember)

\* an object-typed property is being rendered
C26_WitnessObjectProperty == NestedThrough(IsObjectProperty)

\* the items of an array-typed property are being rendered
C26_WitnessPropertyItems == NestedThrough(IsPropertyItems)

\* the items of an array are being rendered
C26_WitnessArrayItems == NestedThrough(IsArrayItems)

\* the method of an operation heading of the input's path
HeadingMethod(line) == CHOOSE m \in AllMethods : line = OperationHeading(m, input.path)

IsHeading(line) == \E m \in AllMethods : line = OperationHeading(m, input.path)

\* the positions of the operation headings and of the separators of a text
HeadingPositions(text) == {i \in DOMAIN text : IsHeading(text[i])}

SeparatorPositions(text) == {i \in DOMAIN text : text[i] = SeparatorOperation[1]}

\* the lines that open the sections of an operation, in the order of writeOperation
SectionHeadings ==
  <<HeaderParameters[1], HeaderRequestBody[1], HeaderResponses[1], HeaderSecurity[1]>>

\* the sections the operation of a method holds
HasSection(method, k) ==
  LET operation == OperationOf(method)
  IN CASE k = 1 -> Len(operation.Parameters) > 0
       [] k = 2 -> operation.RequestBody # <<>>
       [] k = 3 -> operation.Responses # <<>>
       [] k = 4 -> operation.Security # <<>>

IsMetadata(line) ==
  \/ StartsWith(line, "**Summary:** ")
  \/ StartsWith(line, "**Description:** ")
  \/ StartsWith(line, "**Operation ID:** ")
  \/ StartsWith(line, "**Tags:** ")
  \/ StartsWith(line, "[U+26A0 U+FE0F] **DEPRECATED**")

\* the lines h..s of text are one operation fragment: heading first,
\* separator last, no other heading or separator inside, the metadata before
\* every section, each section of the operation once and in the fixed order
IsFragment(text, h, s) ==
  /\ h < s /\ IsHeading(text[h]) /\ text[s] = SeparatorOperation[1]
  /\ \A i \in (h + 1)..(s - 1) : ~IsHeading(text[i]) /\ text[i] # SeparatorOperation[1]
  /\ \A k \in DOMAIN SectionHeadings :
       Cardinality({i \in h..s : text[i] = SectionHeadings[k]}) =
         IF HasSection(HeadingMethod(text[h]), k) THEN 1 ELSE 0
  /\ \A k, l \in DOMAIN SectionHeadings :
       k < l =>
         \A i, j \in h..s :
           text[i] = SectionHeadings[k] /\ text[j] = SectionHeadings[l] => i < j
  /\ \A i, j \in h..s :
       IsMetadata(text[i]) /\ (\E k \in DOMAIN SectionHeadings : text[j] = SectionHeadings[k])
         => i < j

\* C27: in every text GenerateMarkdown returns, what follows the header
\* section is a sequence of operation fragments; each starts with its
\* '## <METHOD> <path>' heading, holds the metadata, then Parameters, Request
\* Body, Responses and Security in this order, and ends with the '---'
\* separator and an empty line; so the text has as many operation headings
\* as separators.
C27_FragmentStructure ==
  Generated =>
    LET heads == HeadingPositions(md)
        seps == SeparatorPositions(md)
    IN /\ Cardinality(heads) = Cardinality(seps)
       /\ \A h \in heads : \E s \in seps : IsFragment(md, h, s)
       /\ \A s \in seps :
            /\ \E h \in heads : IsFragment(md, h, s)
            /\ s + 1 = Len(md) \/ (s + 2) \in heads
            /\ md[s + 1] = ""
       /\ heads # {} =>
            \A i \in 1..Len(md) : i < Len(HeaderSection(input.doc, input.path)) + 1 <=> \A h \in heads : i < h

\* the POST operation, which has all five sections, is rendered
C27_Witness ==
  /\ Generated
  /\ \E h, s \in DOMAIN md :
       /\ md[h] = OperationHeading("POST", input.path)
       /\ IsFragment(md, h, s)
       /\ \A k \in DOMAIN SectionHeadings : \E i \in h..s : md[i] = SectionHeadings[k]
       /\ \E i \in h..s : IsMetadata(md[i])

\* three operations are rendered, with three separators
C27_WitnessThree ==
  /\ Generated
  /\ Cardinality(HeadingPositions(md)) = 3
  /\ Cardinality(SeparatorPositions(md)) = 3

\* 2 * i spaces
RECURSIVE Indentation(_)
Indentation(i) == IF i = 0 THEN "" ELSE "  " \o Indentation(i - 1)

\* by how much the indent may grow from the activation rendering parent to
\* the one it calls for child
IndentSteps(parent, child) ==
  (IF IsCompositionMember(parent, child) THEN {2} ELSE {}) \cup
  (IF IsObjectProperty(parent, child) THEN {2} ELSE {}) \cup
  (IF IsPropertyItems(parent, child) THEN {3} ELSE {}) \cup
  (IF IsArrayItems(parent, child) THEN {1} ELSE {})

\* an activation of FormatSchema found its budget exhausted and has its
\* bullet still to write
BoundHit(frame) ==
  /\ frame.fn = "FormatSchema" /\ frame.schema # Nil /\ frame.maxDepth <= 0
  /\ frame.items # <<>>

\* an activation of FormatSchema runs inside another, entered through the
\* given relation, with the indent grown by step
IndentedThrough(Related(_, _), step) ==
  \E i \in 1..(Len(stack) - 1) :
    /\ stack[i].fn = "FormatSchema" /\ stack[i + 1].fn = "FormatSchema"
    /\ Related(stack[i].schema, stack[i + 1].schema)
    /\ IndentSteps(stack[i].schema, stack[i + 1].schema) = {step}
    /\ stack[i + 1].indent = stack[i].indent + step

\* C28: an activation of FormatSchema that finds its budget exhausted writes
\* the single line '- *(max depth reached)*' behind 2 * indent spaces, indent
\* being its own; an activation at indent i calls FormatSchema at i + 2 for
\* a composition member or an object-typed property, at i + 3 for the items
\* of an array-typed property, at i + 1 for the items of an array; every line
\* an activation at indent i writes starts with 2 * i spaces.
C28_Indentation ==
  \A n \in DOMAIN stack :
    stack[n].fn = "FormatSchema" =>
      LET frame == stack[n]
      IN /\ frame.schema # Nil /\ frame.maxDepth <= 0 =>
              frame.items \in
                {<<>>, <<Write(Indentation(frame.indent) \o "- *(max depth reached)*")>>}
         /\ \A k \in DOMAIN frame.items :
              /\ frame.items[k].op = "call" =>
                   (frame.items[k].indent - frame.indent)
                     \in IndentSteps(frame.schema, frame.items[k].schema)
              /\ frame.items[k].op = "write" =>
                   StartsWith(frame.items[k].line, Indentation(frame.indent))
         /\ n < Len(stack) =>
              (stack[n + 1].indent - frame.indent)
                \in IndentSteps(frame.schema, stack[n + 1].schema)

\* the bound is hit three activations deep in a chain of nested objects
\* entered at indent 1: the bullet is due at indent 7
C28_Witness ==
  /\ stack # <<>> /\ BoundHit(Top)
  /\ Top.indent = 7 /\ Len(stack) = 4
  /\ Top.items = <<Write("              - *(max depth reached)*")>>

\* a composition member at indent + 2
C28_WitnessMember == IndentedThrough(IsCompositionMember, 2)

\* an object-typed property at indent + 2
C28_WitnessObjectProperty == IndentedThrough(IsObjectProperty, 2)

\* the items of an array-typed property at indent + 3
C28_WitnessPropertyItems == IndentedThrough(IsPropertyItems, 3)

\* the items of an array at indent + 1
C28_WitnessArrayItems == IndentedThrough(IsArrayItems, 1)

\* both renders of the projection scenario returned: prev is the text without
\* a filter, md the text with the filter input.method
Projected == input.kind = "Projection" /\ stack = <<>> /\ runs = 2

\* the fragment of a text for a method: from its heading to the empty line
\* after the next separator
FragmentOf(text, method) ==
  LET h == IndexOf(text, OperationHeading(method, input.path))
      s == CHOOSE i \in h..Len(text) :
             /\ text[i] = SeparatorOperation[1]
             /\ \A j \in h..(i - 1) : text[j] # SeparatorOperation[1]
  IN SubSeq(text, h, s + 1)

\* the filtered text is the header followed by the fragment the unfiltered
\* text holds for the filter's method, or the header alone when the path
\* item defines no such method
IsProjection ==
  md = HeaderSection(input.doc, input.path) \o
       (IF input.method \in DefinedMethods THEN FragmentOf(prev, input.method) ELSE <<>>)

\* C29: rendering with a filter M gives the header section, the same as
\* without a filter, followed by exactly the fragment the render without a
\* filter holds for M when the path item defines M, and by nothing otherwise.
C29_FilterIsProjection == Projected => IsProjection

\* the part that does not depend on the order of a security requirement's
\* schemes: the header is the same with and without a filter, a filter that
\* names no defined method gives the header alone, and the projection holds
\* for every operation but GET, whose security requirement names two schemes
C29_ProjectionElsewhere ==
  Projected =>
    /\ LinesAt(md, 1, HeaderSection(input.doc, input.path))
    /\ LinesAt(prev, 1, HeaderSection(input.doc, input.path))
    /\ input.method # "GET" => IsProjection

\* a defined method other than GET is projected
C29_WitnessElsewhere ==
  /\ Projected /\ input.method = "PUT" /\ DefinedMethods = {"GET", "PUT", "DELETE"}
  /\ IsProjection

\* the schemas one step below a schema: the values of its properties, its
\* items, the members of its composition lists
NestedSchemas(p) ==
  LET s == Heap[p]
      Values(refs) == {refs[k].Value : k \in {k \in DOMAIN refs : ~refs[k].nil}} \ {Nil}
  IN Values(s.Properties) \cup Values(<<s.Items>>) \cup
     Values(s.OneOf) \cup Values(s.AnyOf) \cup Values(s.AllOf)

\* the schemas at which a chain of k nested schemas starts
RECURSIVE ChainStarts(_)
ChainStarts(k) ==
  IF k = 1 THEN 1..HeapSize
  ELSE LET below == ChainStarts(k - 1)
       IN {p \in 1..HeapSize : NestedSchemas(p) \cap below # {}}

\* the schemas whose longest chain of nested schemas has exactly
\* MaxRecursionDepth nodes, and those with longer chains
FullDepthSchemas == ChainStarts(MaxRecursionDepth) \ ChainStarts(MaxRecursionDepth + 1)

DeepSchemas == ChainStarts(MaxRecursionDepth + 1)

\* no chain of nested schemas that starts at p has more than
\* MaxRecursionDepth nodes
Shallow(p) == p \notin DeepSchemas

\* the schemas of the media types of an operation's request body and responses
RootSchemas(operation) ==
  LET OfContent(content) ==
        {content[t][1].Schema.Value :
           t \in {t \in DOMAIN content : content[t] # <<>> /\ ~content[t][1].Schema.nil}}
        \ {Nil}
      requestBody ==
        IF operation.RequestBody = <<>> THEN {}
        ELSE OfContent(operation.RequestBody[1].Value[1].Content)
      responses ==
        IF operation.Responses = <<>> THEN {}
        ELSE UNION {OfContent(operation.Responses[1][status][1].Value[1].Content) :
                      status \in DOMAIN operation.Responses[1]}
  IN requestBody \cup responses

EndsWith(line, end) ==
  Len(line) >= Len(end) /\ SubSeq(line, Len(line) - Len(end) + 1, Len(line)) = end

\* no line of the text is the max-depth bullet, at whatever indent
NoMaxDepthBullet(text) == \A i \in DOMAIN text : ~EndsWith(text[i], MaxDepthLine(""))

\* C30: GenerateMarkdown calls FormatSchema for every media-type schema of a
\* request body or response with indent 0 and the full budget
\* MaxRecursionDepth, whatever was rendered before; and a schema whose chains
\* of nested schemas have at most MaxRecursionDepth nodes is rendered from
\* that budget without the max-depth bullet.
C30_BudgetPerSchemaRoot ==
  /\ \A n \in DOMAIN stack :
       stack[n].fn = "GenerateMarkdown" =>
         /\ \A k \in DOMAIN stack[n].items :
              stack[n].items[k].op = "call" =>
                /\ stack[n].items[k].maxDepth = MaxRecursionDepth
                /\ stack[n].items[k].indent = 0
         /\ n < Len(stack) =>
              stack[n + 1].maxDepth = MaxRecursionDepth /\ stack[n + 1].indent = 0
  /\ (Formatted /\ input.schema # Nil /\ input.maxDepth = MaxRecursionDepth
        /\ Shallow(input.schema)) =>
       NoMaxDepthBullet(md)
  /\ (Generated /\ \A m \in DefinedMethods :
                     \A p \in RootSchemas(OperationOf(m)) : Shallow(p)) =>
       NoMaxDepthBullet(md)

\* the third schema of the POST operation starts from the full budget after
\* the second one ran into the bound
C30_Witness ==
  /\ Len(stack) = 2 /\ stack[1].fn = "GenerateMarkdown"
  /\ stack[2].schema = SelfObject /\ stack[2].maxDepth = MaxRecursionDepth
  /\ MaxDepthBullets(md) = 1

\* a schema whose longest chain has exactly MaxRecursionDepth nodes is
\* rendered without the bullet
C30_WitnessShallow ==
  /\ Formatted /\ input.schema # Nil /\ input.maxDepth = MaxRecursionDepth
  /\ input.schema \in FullDepthSchemas
  /\ md # <<>> /\ NoMaxDepthBullet(md)

\* a text with the schemas of GET and PUT holds no bullet
C30_WitnessGenerated ==
  /\ Generated /\ DefinedMethods = {"GET", "PUT"} /\ input.method = ""
  /\ Has(md, HeaderSchema[1]) /\ NoMaxDepthBullet(md)

====
